---- MODULE Spec2Model ----
(***************************************************************************)
(* The argument-matching engine of tabb (src/tabb/parser.py) together with *)
(* the arity algebra (src/tabb/nargs.py) and the part of the descriptors   *)
(* the engine consumes (src/tabb/parameter/parser.py, parameter/types.py). *)
(*                                                                         *)
(* Tokens are sequences of one-character strings, so that the lexical      *)
(* rules (is_short_arg, is_long_flag, str.partition) are computed, not     *)
(* assumed.  Python's None in a str|None field is the pseudo token None.   *)
(***************************************************************************)
EXTENDS Integers, Sequences, FiniteSets, TLC

VARIABLES
    params,                  \* Parser.params: the descriptor list, in order
    short_flags,             \* Parser.short_flags: flag token -> option name
    long_flags,              \* Parser.long_flags: flag token -> option name
    positional,              \* Parser.positional: positional names, in order
    ctx_args,                \* ctx.args: the raw token list of this call
    allow_interspersed_args, \* keyword argument of parse_args
    raise_on_unexpected,     \* keyword argument of parse_args
    threads,                 \* the worklist of _parse_args (a Python list)
    state,                   \* the State the loop of _parse_args holds
    best_match,              \* best_match of _parse_args
    best_is_state,           \* best_match and state are the same object
    error,                   \* arg of the UnexpetedParameter caught at 322
    threads_run,             \* history: how many times threads.pop() ran
    returned_by,             \* history: which return of _parse_args ran
    pc,                      \* where the call is
    outcome,                 \* what parse_args returned or raised
    pending,                 \* descriptors given to Parser() and not yet added
    arity,                   \* the NArgs that decrement() is called on next
    heap,                    \* the Stack nodes and the State objects made of them
    contexts,                \* the Context objects and the thread-local stack
    steps                    \* history: how many steps the call has taken

vars == <<params, short_flags, long_flags, positional, ctx_args,
          allow_interspersed_args, raise_on_unexpected, threads, state,
          best_match, best_is_state, error, threads_run, returned_by, pc,
          outcome, pending, arity, heap, contexts, steps>>

-----------------------------------------------------------------------------
(* Bounds of the model *)

MaxArgs == 3        \* longest token list drawn from a pool that holds flags
MaxPosArgs == 4     \* longest token list drawn from a pool of plain tokens
MaxParams == 3      \* longest descriptor list handed to Parser()
MaxCount == 3       \* largest n, min_values and max_values of an arity
MaxDecrements == 4  \* longest chain of decrement() calls on one arity
MaxObjects == 2     \* State objects alive at once: a State and its copies
MaxNesting == 3     \* with-blocks of Context objects open at once
MaxContextSteps == 6  \* __enter__ and __exit__ calls in one run
MaxHeapSteps == 3   \* operations applied to the State objects

-----------------------------------------------------------------------------
(* Strings *)

None == <<"None">>

Alpha == {"a", "b", "o", "q", "v", "x", "y", "z"}
Digit == {"1", "2"}

Reverse(s) == [i \in 1..Len(s) |-> s[Len(s) + 1 - i]]

Slice(s, from) == SubSeq(s, from, Len(s))

startswith(s, p) == Len(s) >= Len(p) /\ SubSeq(s, 1, Len(p)) = p

isalpha(s) == Len(s) > 0 /\ \A i \in 1..Len(s) : s[i] \in Alpha

isdigit(s) == Len(s) > 0 /\ \A i \in 1..Len(s) : s[i] \in Digit

isidentifier(s) ==
    /\ Len(s) > 0
    /\ s[1] \in Alpha \cup {"_"}
    /\ \A i \in 1..Len(s) : s[i] \in Alpha \cup Digit \cup {"_"}

to_snake(name) ==
    [i \in 1..Len(name) |-> IF name[i] \in {"-", " "} THEN "_" ELSE name[i]]

IndexOf(s, c) ==
    IF \E i \in 1..Len(s) : s[i] = c
    THEN CHOOSE i \in 1..Len(s) : s[i] = c /\ \A j \in 1..(i - 1) : s[j] # c
    ELSE 0

\* str.partition("="): (head, separator found, tail)
partition(arg) ==
    LET i == IndexOf(arg, "=")
    IN  IF i = 0
        THEN [flag |-> arg, has_value |-> FALSE, value |-> <<>>]
        ELSE [flag |-> SubSeq(arg, 1, i - 1), has_value |-> TRUE,
              value |-> Slice(arg, i + 1)]

\* int(value) succeeds: an optional sign followed by digits
int_parses(s) ==
    IF startswith(s, <<"-">>) THEN isdigit(Slice(s, 2)) ELSE isdigit(s)

is_long_flag(arg) ==
    startswith(arg, <<"-", "-">>) /\ isidentifier(to_snake(Slice(arg, 3)))

is_short_flag(arg) ==
    startswith(arg, <<"-">>) /\ Len(arg) = 2 /\ isalpha(<<arg[2]>>)

is_short_arg(arg) ==
    startswith(arg, <<"-">>) /\ Len(arg) > 1 /\ isalpha(Slice(arg, 2))

is_long_arg(arg) == is_long_flag(arg)

is_positional_arg(arg) == ~(is_short_arg(arg) \/ is_long_arg(arg))

-----------------------------------------------------------------------------
(* Arities.  An NArgs is the sequence of its layers, outermost first: a    *)
(* VariadicNArgs layer wraps the NArgs that follows it (its value) and an  *)
(* IntNArgs layer ends the sequence.  Unbounded (max_values None) is       *)
(* Unbounded; the None that decrement() returns is Done.                   *)

Unbounded == -1

Done == <<>>

IntNArgs(n) ==
    <<[kind |-> "int", value |-> n, min_values |-> 0, max_values |-> 0,
       greedy |-> TRUE]>>

VariadicNArgs(value, min_values, max_values, greedy) ==
    <<[kind |-> "variadic", value |-> 0, min_values |-> min_values,
       max_values |-> max_values, greedy |-> greedy]>> \o value

IsInt(nargs) == nargs # Done /\ nargs[1].kind = "int"

IsVariadic(nargs) == nargs # Done /\ nargs[1].kind = "variadic"

from_literal(lit) ==
    CASE lit = "?"  -> VariadicNArgs(IntNArgs(1), 0, 1, TRUE)
      [] lit = "*"  -> VariadicNArgs(IntNArgs(1), 0, Unbounded, TRUE)
      [] lit = "+"  -> VariadicNArgs(IntNArgs(1), 1, Unbounded, TRUE)
      [] lit = "??" -> VariadicNArgs(IntNArgs(1), 0, 1, FALSE)
      [] lit = "*?" -> VariadicNArgs(IntNArgs(1), 0, Unbounded, FALSE)
      [] lit = "+?" -> VariadicNArgs(IntNArgs(1), 1, Unbounded, FALSE)

as_optional(nargs) ==
    IF IsVariadic(nargs) /\ nargs[1].min_values = 0
    THEN nargs
    ELSE VariadicNArgs(nargs, 0, 1, TRUE)

\* Python's `x and x - 1`: 0 and None are falsy and are returned unchanged
and_minus_one(x) == IF x = 0 \/ x = Unbounded THEN x ELSE x - 1

int_decrement(nargs) ==
    IF nargs[1].value <= 1 THEN Done ELSE IntNArgs(nargs[1].value - 1)

variadic_decrement(nargs) ==
    IF nargs[1].max_values = 1
    THEN Done
    ELSE VariadicNArgs(Tail(nargs), and_minus_one(nargs[1].min_values),
                       and_minus_one(nargs[1].max_values), nargs[1].greedy)

decrement(nargs) ==
    IF IsInt(nargs) THEN int_decrement(nargs) ELSE variadic_decrement(nargs)

-----------------------------------------------------------------------------
(* Descriptors.  A descriptor is a record                                  *)
(*   name, role ("positional" | "option"), type (the item type: "str",     *)
(*   "int", "flag", "counter"), seq (wrapped in a SequenceType), nargs     *)
(*   (what its type reports), required (the constructor argument, always   *)
(*   given), has_default, flags.                                           *)

Param(name) == CHOOSE p \in {params[i] : i \in 1..Len(params)} : p.name = name

PositionalArg(value) == [kind |-> "PositionalArg", flag |-> None, value |-> value]

OptionArg(flag, value) == [kind |-> "OptionArg", flag |-> flag, value |-> value]

is_required(p) == p.required

ParserParameter_nargs(p) == p.nargs

ArgumentParameter_nargs(p) ==
    IF is_required(p)
    THEN ParserParameter_nargs(p)
    ELSE as_optional(ParserParameter_nargs(p))

\* Scalar.matches / Bool.matches / Flag.matches / Counter.matches;
\* SequenceType.matches asks its item type
type_matches(type, arg) ==
    CASE type = "str"     -> arg.value # None
      [] type = "int"     -> arg.value # None /\ int_parses(arg.value)
      [] type = "flag"    -> arg.kind = "OptionArg" /\ arg.value = None
      [] type = "counter" -> arg.value = None

\* ParserParameter.matches accepts everything; only ArgumentParameter
\* overrides it to ask the type
matches(p, arg) ==
    IF p.role = "positional" THEN type_matches(p.type, arg) ELSE TRUE

-----------------------------------------------------------------------------
(* State.  Every Stack is a sequence whose head is the top of the stack.   *)
(* The field log is a history of the thread: one entry per token it took   *)
(* out of the input for good, as the end marker, as a recognised flag      *)
(* token, or as the value of a captured occurrence.                        *)

StackFrame(param, nargs, flag, value, has_value) ==
    [param |-> param, nargs |-> nargs, flag |-> flag, value |-> value,
     has_value |-> has_value]

State(args, pos) ==
    [args |-> args, positional |-> pos, parse_options |-> TRUE,
     unused_args |-> <<>>, captured_args |-> <<>>, stack |-> <<>>,
     log |-> <<>>]

copy(st) == st

push_arg(st, arg) == [st EXCEPT !.args = <<arg>> \o @]

push_unused_arg(st, arg) == [st EXCEPT !.unused_args = <<arg>> \o @]

\* mutant: the deferred tokens are put back newest first
reset_unused_args_newest_first(st) ==
    [st EXCEPT !.unused_args = <<>>, !.args = st.unused_args \o @]

RECURSIVE reset_unused_args(_)
reset_unused_args(st) ==
    IF st.unused_args = <<>>
    THEN st
    ELSE reset_unused_args([st EXCEPT !.unused_args = Tail(@),
                                      !.args = <<Head(st.unused_args)>> \o @])

State_push_frame(st, frame) == [st EXCEPT !.stack = <<frame>> \o @]

capture_arg(st, param, arg) ==
    [st EXCEPT !.captured_args = <<[param |-> param, arg |-> arg]>> \o @]

Logged(st, tok, kind) ==
    [st EXCEPT !.log = Append(@, [tok |-> tok, kind |-> kind])]

\* mutant: the occurrences of a descriptor are returned newest first
get_captured_args_newest_first(st) ==
    LET keys == {st.captured_args[i].param : i \in 1..Len(st.captured_args)}
        of(p) == SelectSeq(st.captured_args, LAMBDA c : c.param = p)
    IN  [p \in keys |-> [i \in 1..Len(of(p)) |-> of(p)[i].arg]]

\* the dict of get_captured_args: its keys are the descriptors that captured
get_captured_args(st) ==
    LET keys == {st.captured_args[i].param : i \in 1..Len(st.captured_args)}
        of(p) == SelectSeq(st.captured_args, LAMBDA c : c.param = p)
    IN  [p \in keys |-> Reverse([i \in 1..Len(of(p)) |-> of(p)[i].arg])]

\* captured_args.get(param, [])
dict_get(captured, p) == IF p \in DOMAIN captured THEN captured[p] ELSE <<>>

loss(st) == <<Len(st.positional), Len(st.args)>>

\* tuple comparison of two losses
loss_less(a, b) == a[1] < b[1] \/ (a[1] = b[1] /\ a[2] < b[2])

-----------------------------------------------------------------------------
(* The engine.  An operation of the Parser returns the State it leaves,    *)
(* the worklist it leaves and the exception it raised ("" for none; arg is *)
(* the arg of an UnexpetedParameter).                                      *)

Ok(st, th) == [state |-> st, threads |-> th, exc |-> "", arg |-> None]

Raise(st, th, exc, arg) == [state |-> st, threads |-> th, exc |-> exc, arg |-> arg]

\* mutant: the frame is opened and no State is put on the worklist
fork_frame_no_alternative(st, th, frame) ==
    IF frame.nargs[1].greedy
    THEN Ok(State_push_frame(st, frame), th)
    ELSE Ok(st, th)

\* mutant: a greedy arity is forked as a lazy one is
fork_frame_stop_first(st, th, frame) ==
    Ok(st, Append(th, State_push_frame(copy(st), frame)))

\* mutant: a lazy arity is forked as a greedy one is
fork_frame_keep_first(st, th, frame) ==
    Ok(State_push_frame(st, frame), Append(th, copy(st)))

\* the fork of _push_frame for a zero-minimum variadic arity
fork_frame(st, th, frame) ==
    IF frame.nargs[1].greedy
    THEN Ok(State_push_frame(st, frame), Append(th, copy(st)))
    ELSE Ok(st, Append(th, State_push_frame(copy(st), frame)))

\* mutant: a frame of fixed arity is forked as well
_push_frame_forks_fixed(st, th, param, nargs, flag, value, has_value) ==
    IF nargs = Done
    THEN Ok(st, th)
    ELSE IF nargs[1].min_values = 0
         THEN fork_frame(st, th, StackFrame(param, nargs, flag, value, has_value))
         ELSE Ok(State_push_frame(st, StackFrame(param, nargs, flag, value, has_value)), th)

\* mutant: the frame of an option is opened as an alternative too
_push_frame_forks_options(st, th, param, nargs, flag, value, has_value) ==
    IF nargs = Done
    THEN Ok(st, th)
    ELSE IF flag # None \/ (IsVariadic(nargs) /\ nargs[1].min_values = 0)
         THEN fork_frame(st, th, StackFrame(param, nargs, flag, value, has_value))
         ELSE Ok(State_push_frame(st, StackFrame(param, nargs, flag, value, has_value)), th)

_push_frame(st, th, param, nargs, flag, value, has_value) ==
    IF nargs = Done
    THEN Ok(st, th)
    ELSE IF IsVariadic(nargs) /\ nargs[1].min_values = 0
         THEN fork_frame(st, th, StackFrame(param, nargs, flag, value, has_value))
         ELSE Ok(State_push_frame(st, StackFrame(param, nargs, flag, value, has_value)), th)

\* mutant: the value is read from state.args and left there
_get_int_frame_arg_peeks(st, frame, nargs) ==
    IF frame.flag # None /\ nargs[1].value = 0 /\ frame.value = None
    THEN [state |-> st, exc |-> "", arg |-> OptionArg(frame.flag, None), popped |-> FALSE]
    ELSE IF frame.flag # None /\ nargs[1].value = 1 /\ frame.value # None
    THEN [state |-> st, exc |-> "", arg |-> OptionArg(frame.flag, frame.value), popped |-> FALSE]
    ELSE IF frame.has_value \/ st.args = <<>>
    THEN [state |-> st, exc |-> "MatchError", arg |-> PositionalArg(None), popped |-> FALSE]
    ELSE [state |-> st, exc |-> "",
          arg |-> IF frame.flag # None
                  THEN OptionArg(frame.flag, Head(st.args))
                  ELSE PositionalArg(Head(st.args)),
          popped |-> TRUE]

\* mutant: a frame refuses a token that has the shape of a flag or is the
\* end marker
_get_int_frame_arg_refuses_flags(st, frame, nargs) ==
    IF frame.flag # None /\ nargs[1].value = 0 /\ frame.value = None
    THEN [state |-> st, exc |-> "", arg |-> OptionArg(frame.flag, None), popped |-> FALSE]
    ELSE IF frame.flag # None /\ nargs[1].value = 1 /\ frame.value # None
    THEN [state |-> st, exc |-> "", arg |-> OptionArg(frame.flag, frame.value), popped |-> FALSE]
    ELSE IF frame.has_value \/ st.args = <<>>
    THEN [state |-> st, exc |-> "MatchError", arg |-> PositionalArg(None), popped |-> FALSE]
    ELSE IF ~is_positional_arg(Head(st.args)) \/ Head(st.args) = <<"-", "-">>
    THEN [state |-> st, exc |-> "MatchError", arg |-> PositionalArg(None), popped |-> FALSE]
    ELSE [state |-> [st EXCEPT !.args = Tail(@)], exc |-> "",
          arg |-> IF frame.flag # None
                  THEN OptionArg(frame.flag, Head(st.args))
                  ELSE PositionalArg(Head(st.args)),
          popped |-> TRUE]

\* mutant: a frame that may not read a following token reads one all the same
_get_int_frame_arg_ignores_has_value(st, frame, nargs) ==
    IF frame.flag # None /\ nargs[1].value = 0 /\ frame.value = None
    THEN [state |-> st, exc |-> "", arg |-> OptionArg(frame.flag, None), popped |-> FALSE]
    ELSE IF frame.flag # None /\ nargs[1].value = 1 /\ frame.value # None
    THEN [state |-> st, exc |-> "", arg |-> OptionArg(frame.flag, frame.value), popped |-> FALSE]
    ELSE IF st.args = <<>>
    THEN [state |-> st, exc |-> "MatchError", arg |-> PositionalArg(None), popped |-> FALSE]
    ELSE [state |-> [st EXCEPT !.args = Tail(@)], exc |-> "",
          arg |-> IF frame.flag # None
                  THEN OptionArg(frame.flag, Head(st.args))
                  ELSE PositionalArg(Head(st.args)),
          popped |-> TRUE]

\* mutant: an inline value is accepted as the first value of any arity
_get_int_frame_arg_inline_any(st, frame, nargs) ==
    IF frame.flag # None /\ nargs[1].value = 0 /\ frame.value = None
    THEN [state |-> st, exc |-> "", arg |-> OptionArg(frame.flag, None), popped |-> FALSE]
    ELSE IF frame.flag # None /\ frame.value # None
    THEN [state |-> st, exc |-> "", arg |-> OptionArg(frame.flag, frame.value), popped |-> FALSE]
    ELSE IF frame.has_value \/ st.args = <<>>
    THEN [state |-> st, exc |-> "MatchError", arg |-> PositionalArg(None), popped |-> FALSE]
    ELSE [state |-> [st EXCEPT !.args = Tail(@)], exc |-> "",
          arg |-> IF frame.flag # None
                  THEN OptionArg(frame.flag, Head(st.args))
                  ELSE PositionalArg(Head(st.args)),
          popped |-> TRUE]

\* arg: the occurrence; popped: whether its value was taken from state.args
_get_int_frame_arg(st, frame, nargs) ==
    IF frame.flag # None /\ nargs[1].value = 0 /\ frame.value = None
    THEN [state |-> st, exc |-> "", arg |-> OptionArg(frame.flag, None), popped |-> FALSE]
    ELSE IF frame.flag # None /\ nargs[1].value = 1 /\ frame.value # None
    THEN [state |-> st, exc |-> "", arg |-> OptionArg(frame.flag, frame.value), popped |-> FALSE]
    ELSE IF frame.has_value \/ st.args = <<>>
    THEN [state |-> st, exc |-> "MatchError", arg |-> PositionalArg(None), popped |-> FALSE]
    ELSE [state |-> [st EXCEPT !.args = Tail(@)], exc |-> "",
          arg |-> IF frame.flag # None
                  THEN OptionArg(frame.flag, Head(st.args))
                  ELSE PositionalArg(Head(st.args)),
          popped |-> TRUE]

_parse_int_frame(st, th, frame, nargs) ==
    LET got == _get_int_frame_arg(st, frame, nargs)
        kept == capture_arg(got.state, frame.param, got.arg)
    IN  IF got.exc # ""
        THEN Raise(got.state, th, got.exc, None)
        ELSE IF ~matches(Param(frame.param), got.arg)
        THEN Raise(got.state, th, "MatchError", None)
        ELSE _push_frame(IF got.popped THEN Logged(kept, got.arg.value, "value") ELSE kept,
                         th, frame.param, decrement(nargs), frame.flag, None, FALSE)

RECURSIVE _parse_frame(_, _, _)
_parse_variadic_frame(st, th, frame, nargs) ==
    LET child_frame == StackFrame(frame.param, Tail(nargs), frame.flag, None, FALSE)
        child == _parse_frame(st, th, child_frame)
    IN  IF child.exc # ""
        THEN child
        ELSE _push_frame(child.state, child.threads, frame.param,
                         decrement(nargs), frame.flag, None, FALSE)

_parse_frame(st, th, frame) ==
    IF IsInt(frame.nargs)
    THEN _parse_int_frame(st, th, frame, frame.nargs)
    ELSE _parse_variadic_frame(st, th, frame, frame.nargs)

\* OptionParameter.nargs raises ValueError for an arity that is not IntNArgs
OptionParameter_nargs_ok(p) == IsInt(ParserParameter_nargs(p))

\* the loop of _parse_short over reversed(flag[1:]), from position index on
RECURSIVE _parse_short_from(_, _, _, _, _, _)
_parse_short_from(st, th, arg, names, index, value) ==
    IF index >= Len(names)
    THEN Ok(st, th)
    ELSE LET short_flag == <<"-", names[index + 1]>>
         IN  IF short_flag \notin DOMAIN short_flags
             THEN Raise(st, th, "UnexpetedParameter", arg)
             ELSE IF ~OptionParameter_nargs_ok(Param(short_flags[short_flag]))
             THEN Raise(st, th, "ValueError", None)
             ELSE LET pushed == _push_frame(st, th, short_flags[short_flag],
                                    ParserParameter_nargs(Param(short_flags[short_flag])),
                                    short_flag,
                                    IF index = 0 THEN value ELSE None,
                                    index # 0 \/ value # None)
                  IN  _parse_short_from(pushed.state, pushed.threads, arg,
                                        names, index + 1, value)

\* mutant: the names of a cluster are walked first to last
_parse_short_unreversed(st, th, arg, flag, value) ==
    LET res == _parse_short_from(st, th, arg, Slice(flag, 2), 0, value)
    IN  IF res.exc = ""
        THEN Ok(Logged(res.state, arg, "flag"), res.threads)
        ELSE res

_parse_short(st, th, arg, flag, value) ==
    LET res == _parse_short_from(st, th, arg, Reverse(Slice(flag, 2)), 0, value)
    IN  IF res.exc = ""
        THEN Ok(Logged(res.state, arg, "flag"), res.threads)
        ELSE res

_parse_long(st, th, arg, flag, value) ==
    IF flag \notin DOMAIN long_flags
    THEN Raise(st, th, "UnexpetedParameter", arg)
    ELSE IF ~OptionParameter_nargs_ok(Param(long_flags[flag]))
    THEN Raise(st, th, "ValueError", None)
    ELSE _push_frame(Logged(st, arg, "flag"), th, long_flags[flag],
                     ParserParameter_nargs(Param(long_flags[flag])),
                     flag, value, value # None)

\* mutant: the token that ends flag parsing is not put back
_parse_option_arg_drops_positional(st, th, arg, interspersed) ==
    LET parts == partition(arg)
        flag == parts.flag
        value == IF parts.has_value THEN parts.value ELSE None
    IN  IF arg = <<"-", "-">>
        THEN Ok(Logged([st EXCEPT !.parse_options = FALSE], arg, "marker"), th)
        ELSE IF is_short_arg(flag)
        THEN _parse_short(st, th, arg, flag, value)
        ELSE IF is_long_arg(flag)
        THEN _parse_long(st, th, arg, flag, value)
        ELSE IF interspersed
        THEN Ok(push_unused_arg(st, arg), th)
        ELSE Ok([st EXCEPT !.parse_options = FALSE], th)

\* mutant: a token that is no flag ends flag parsing in either mode
_parse_option_arg_never_interspersed(st, th, arg, interspersed) ==
    LET parts == partition(arg)
        flag == parts.flag
        value == IF parts.has_value THEN parts.value ELSE None
    IN  IF arg = <<"-", "-">>
        THEN Ok(Logged([st EXCEPT !.parse_options = FALSE], arg, "marker"), th)
        ELSE IF is_short_arg(flag)
        THEN _parse_short(st, th, arg, flag, value)
        ELSE IF is_long_arg(flag)
        THEN _parse_long(st, th, arg, flag, value)
        ELSE Ok(push_arg([st EXCEPT !.parse_options = FALSE], arg), th)

\* mutant: the end marker is consumed but flag parsing goes on
_parse_option_arg_marker_ignored(st, th, arg, interspersed) ==
    LET parts == partition(arg)
        flag == parts.flag
        value == IF parts.has_value THEN parts.value ELSE None
    IN  IF arg = <<"-", "-">>
        THEN Ok(Logged(st, arg, "marker"), th)
        ELSE IF is_short_arg(flag)
        THEN _parse_short(st, th, arg, flag, value)
        ELSE IF is_long_arg(flag)
        THEN _parse_long(st, th, arg, flag, value)
        ELSE IF interspersed
        THEN Ok(push_unused_arg(st, arg), th)
        ELSE Ok(push_arg([st EXCEPT !.parse_options = FALSE], arg), th)

\* what _parse_option does with the token arg it popped
_parse_option_arg(st, th, arg, interspersed) ==
    LET parts == partition(arg)
        flag == parts.flag
        value == IF parts.has_value THEN parts.value ELSE None
    IN  IF arg = <<"-", "-">>
        THEN Ok(Logged([st EXCEPT !.parse_options = FALSE], arg, "marker"), th)
        ELSE IF is_short_arg(flag)
        THEN _parse_short(st, th, arg, flag, value)
        ELSE IF is_long_arg(flag)
        THEN _parse_long(st, th, arg, flag, value)
        ELSE IF interspersed
        THEN Ok(push_unused_arg(st, arg), th)
        ELSE Ok(push_arg([st EXCEPT !.parse_options = FALSE], arg), th)

_parse_option(st, th, interspersed) ==
    IF st.args = <<>>
    THEN Ok([st EXCEPT !.parse_options = FALSE], th)
    ELSE _parse_option_arg([st EXCEPT !.args = Tail(@)], th, Head(st.args), interspersed)

_parse_positional(st, th) ==
    _push_frame([st EXCEPT !.positional = Tail(@)], th, Head(st.positional),
                ArgumentParameter_nargs(Param(Head(st.positional))),
                None, None, FALSE)

\* the condition under which the loop of _parse_thread breaks
Terminal(st) == st.stack = <<>> /\ ~st.parse_options /\ st.positional = <<>>

\* one turn of the loops of _parse_thread on a State that is not terminal
_parse_thread_step(st, th, interspersed) ==
    IF st.stack # <<>>
    THEN _parse_frame([st EXCEPT !.stack = Tail(@)], th, Head(st.stack))
    ELSE IF st.parse_options
    THEN _parse_option(st, th, interspersed)
    ELSE _parse_positional(reset_unused_args(st), th)

-----------------------------------------------------------------------------
(* _parse_args.  The locals of the search are gathered in a record m:      *)
(* threads, state, best_match, best_is_state, error, threads_run, pc.      *)
(* pc is "loop" at the head of `while threads`, "thread" inside            *)
(* _parse_thread, "returned" once _parse_args has returned m.state and     *)
(* "raised" when an exception left it.  returned_by tells the return that  *)
(* ran: "success" (a thread broke out of its loop), "unexpected" (after    *)
(* the except clause at 322) or "best_match" (the worklist ran empty).     *)

\* lines 302-307: best_match is the root State and the only worklist entry
search_start(tokens, pos) ==
    [threads |-> <<State(tokens, pos)>>, state |-> State(tokens, pos),
     best_match |-> State(tokens, pos), best_is_state |-> TRUE,
     error |-> None, threads_run |-> 0, returned_by |-> "", pc |-> "loop",
     exc |-> ""]

\* mutant: the oldest entry of the worklist is run next
pop_thread_oldest(m) ==
    [m EXCEPT !.state = m.threads[1],
              !.threads = Tail(m.threads),
              !.best_is_state = (m.threads_run = 0),
              !.threads_run = @ + 1,
              !.pc = "thread"]

\* state = threads.pop(): the last entry.  Only the root State, the first
\* one popped, is the object best_match names; later entries are copies.
pop_thread(m) ==
    [m EXCEPT !.state = m.threads[Len(m.threads)],
              !.threads = SubSeq(m.threads, 1, Len(m.threads) - 1),
              !.best_is_state = (m.threads_run = 0),
              !.threads_run = @ + 1,
              !.pc = "thread"]

\* `return best_match` when the worklist is empty
return_best_match(m) ==
    [m EXCEPT !.state = m.best_match, !.best_is_state = TRUE,
              !.returned_by = "best_match", !.pc = "returned"]

\* mutant: a failed State of equal loss replaces the best match
on_match_error_keeps_last(m, res) ==
    [m EXCEPT !.state = res.state,
              !.threads = res.threads,
              !.best_match = IF m.best_is_state
                                \/ ~loss_less(loss(m.best_match), loss(res.state))
                             THEN res.state ELSE @,
              !.best_is_state = m.best_is_state
                                \/ ~loss_less(loss(m.best_match), loss(res.state)),
              !.pc = "loop"]

\* the except MatchError clause: keep the failed State if its loss is smaller
on_match_error(m, res) ==
    [m EXCEPT !.state = res.state,
              !.threads = res.threads,
              !.best_match = IF m.best_is_state
                                \/ loss_less(loss(res.state), loss(m.best_match))
                             THEN res.state ELSE @,
              !.best_is_state = m.best_is_state
                                \/ loss_less(loss(res.state), loss(m.best_match)),
              !.pc = "loop"]

\* the except UnexpetedParameter clause, then `return state`
on_unexpected(m, res) ==
    [m EXCEPT !.state = push_arg(res.state, res.arg),
              !.threads = res.threads,
              !.best_match = IF m.best_is_state THEN push_arg(res.state, res.arg) ELSE @,
              !.error = res.arg,
              !.returned_by = "unexpected",
              !.pc = "returned"]

\* what the try statement of _parse_args makes of one turn of _parse_thread
after_step(m, res) ==
    CASE res.exc = "" ->
           [m EXCEPT !.state = res.state, !.threads = res.threads,
                     !.best_match = IF m.best_is_state THEN res.state ELSE @]
      [] res.exc = "MatchError" -> on_match_error(m, res)
      [] res.exc = "UnexpetedParameter" -> on_unexpected(m, res)
      [] OTHER ->
           [m EXCEPT !.state = res.state, !.threads = res.threads,
                     !.best_match = IF m.best_is_state THEN res.state ELSE @,
                     !.pc = "raised", !.exc = res.exc]

thread_step(m, interspersed) ==
    after_step(m, _parse_thread_step(m.state, m.threads, interspersed))

\* the break of _parse_thread, then `return state`
thread_break(m) == [m EXCEPT !.returned_by = "success", !.pc = "returned"]

search_step(m, interspersed) ==
    CASE m.pc = "loop" /\ m.threads # <<>> -> pop_thread(m)
      [] m.pc = "loop" /\ m.threads = <<>> -> return_best_match(m)
      [] m.pc = "thread" /\ Terminal(m.state) -> thread_break(m)
      [] m.pc = "thread" /\ ~Terminal(m.state) -> thread_step(m, interspersed)

RECURSIVE search_run(_, _)
search_run(m, interspersed) ==
    IF m.pc \in {"returned", "raised"}
    THEN m
    ELSE search_run(search_step(m, interspersed), interspersed)

\* _parse_args on a token list: the record it ends in
_parse_args(tokens, interspersed) ==
    search_run(search_start(tokens, positional), interspersed)

-----------------------------------------------------------------------------
(* Value processing, as far as it decides what parse_args raises.  The     *)
(* environment and the configuration of the context are empty.             *)

\* Scalar.process_arg, Flag.process_arg: the exception it raises, "" for none
scalar_process_arg(type, arg) ==
    CASE type = "flag" -> IF arg.value # None THEN "TypeError" ELSE ""
      [] arg.value = None -> "TypeError"
      [] type = "int" /\ ~int_parses(arg.value) -> "BadParameter"
      [] OTHER -> ""

\* String and Int allow overwriting, Bool and Flag do not (types.py 240-288)
allow_overwrite(type) == type \notin {"flag"}

\* Scalar.process_args / Counter.process_args on a non-empty list
item_process_args(type, args) ==
    IF type = "counter"
    THEN ""
    ELSE IF Len(args) # 1 /\ ~allow_overwrite(type)
    THEN "BadParameter"
    ELSE scalar_process_arg(type, args[Len(args)])

\* SequenceType.process_args hands its item type one occurrence at a time
type_process_args(p, args) ==
    IF p.seq
    THEN IF \E i \in 1..Len(args) : item_process_args(p.type, <<args[i]>>) # ""
         THEN LET i == CHOOSE i \in 1..Len(args) :
                           /\ item_process_args(p.type, <<args[i]>>) # ""
                           /\ \A j \in 1..(i - 1) : item_process_args(p.type, <<args[j]>>) = ""
              IN  item_process_args(p.type, <<args[i]>>)
         ELSE ""
    ELSE item_process_args(p.type, args)

\* whether type.process_args([]) is MISSING: a Scalar has nothing to give
empty_is_missing(p) == ~p.seq /\ p.type # "counter"

\* ParserParameter.process_args: get_value, then validate
process_args(p, args) ==
    IF args # <<>>
    THEN type_process_args(p, args)
    ELSE IF ~p.has_default /\ empty_is_missing(p) /\ is_required(p)
    THEN "MissingParameter"
    ELSE ""

\* the loop of parse_args over self.params: the first exception, "" for none
RECURSIVE process_all(_, _, _)
process_all(ps, captured, i) ==
    IF i > Len(ps)
    THEN ""
    ELSE IF process_args(ps[i], dict_get(captured, ps[i].name)) # ""
    THEN process_args(ps[i], dict_get(captured, ps[i].name))
    ELSE process_all(ps, captured, i + 1)

Returned(values, leftover) ==
    [kind |-> "return", arg |-> None, values |-> values, leftover |-> leftover]

Raised(kind, arg) == [kind |-> kind, arg |-> arg, values |-> <<>>, leftover |-> <<>>]

\* mutant: the strict check looks at state.args only
parse_args_finish_args_only(st, strict) ==
    LET captured_args == get_captured_args(st)
        failed == process_all(params, captured_args, 1)
        names == {params[i].name : i \in 1..Len(params)}
    IN  IF failed # ""
        THEN Raised(failed, None)
        ELSE IF st.args # <<>> /\ strict
        THEN Raised("UnexpetedParameter", Head(st.args))
        ELSE Returned([n \in names |-> dict_get(captured_args, n)],
                      reset_unused_args(st).args)

\* parse_args after _parse_args has returned st (lines 267-281).  values
\* stands for the occurrence lists handed to the descriptors, by name.
parse_args_finish(st, strict) ==
    LET captured_args == get_captured_args(st)
        failed == process_all(params, captured_args, 1)
        names == {params[i].name : i \in 1..Len(params)}
    IN  IF failed # ""
        THEN Raised(failed, None)
        ELSE IF (st.args # <<>> \/ st.unused_args # <<>>) /\ strict
        THEN Raised("UnexpetedParameter",
                    IF st.args = <<>>
                    THEN Head(reset_unused_args(st).args)
                    ELSE Head(st.args))
        ELSE Returned([n \in names |-> dict_get(captured_args, n)],
                      reset_unused_args(st).args)

-----------------------------------------------------------------------------
(* Parser.__init__ and add_param *)

EmptyParser ==
    [short_flags |-> <<>>, long_flags |-> <<>>, positional |-> <<>>,
     params |-> <<>>, exc |-> ""]

\* the loop of add_param over chain(param.flags, param.secondary_flags)
RECURSIVE add_flags(_, _, _)
add_flags(parser, name, flags) ==
    IF flags = <<>> \/ parser.exc # ""
    THEN parser
    ELSE IF is_short_flag(Head(flags))
    THEN IF Head(flags) \in DOMAIN parser.short_flags
         THEN [parser EXCEPT !.exc = "ValueError"]
         ELSE add_flags([parser EXCEPT !.short_flags = @ @@ (Head(flags) :> name)],
                        name, Tail(flags))
    ELSE IF is_long_flag(Head(flags))
    THEN IF Head(flags) \in DOMAIN parser.long_flags
         THEN [parser EXCEPT !.exc = "ValueError"]
         ELSE add_flags([parser EXCEPT !.long_flags = @ @@ (Head(flags) :> name)],
                        name, Tail(flags))
    ELSE [parser EXCEPT !.exc = "ValueError"]

\* mutant: a flag that is registered already is given to the new option
add_param_overwrites(parser, param) ==
    LET fs == {param.flags[i] : i \in 1..Len(param.flags)}
        put(table, keep) ==
            [f \in DOMAIN table \cup {g \in fs : keep[g]} |->
                IF f \in fs THEN param.name ELSE table[f]]
        added == IF param.role = "positional"
                 THEN [parser EXCEPT !.positional = Append(@, param.name)]
                 ELSE [parser EXCEPT
                          !.short_flags = put(@, [g \in fs |-> is_short_flag(g)]),
                          !.long_flags = put(@, [g \in fs |-> ~is_short_flag(g)])]
    IN  [added EXCEPT !.params = Append(@, param)]

add_param(parser, param) ==
    LET added == IF param.role = "positional"
                 THEN [parser EXCEPT !.positional = Append(@, param.name)]
                 ELSE add_flags(parser, param.name, param.flags)
    IN  IF added.exc # ""
        THEN added
        ELSE [added EXCEPT !.params = Append(@, param)]

RECURSIVE add_params(_, _)
add_params(parser, ps) ==
    IF ps = <<>> \/ parser.exc # ""
    THEN parser
    ELSE add_params(add_param(parser, Head(ps)), Tail(ps))

Parser(ps) == add_params(EmptyParser, ps)

-----------------------------------------------------------------------------
(* The descriptor sets and token pools the calls are drawn from *)

Positional(name, type, seq, nargs, required) ==
    [name |-> name, role |-> "positional", type |-> type, seq |-> seq,
     nargs |-> nargs, required |-> required, has_default |-> FALSE,
     flags |-> <<>>]

Option(name, type, seq, nargs, required, has_default, flags) ==
    [name |-> name, role |-> "option", type |-> type, seq |-> seq,
     nargs |-> nargs, required |-> required, has_default |-> has_default,
     flags |-> flags]

tA == <<"a">>
tB == <<"b">>
tOne == <<"1">>
tMarker == <<"-", "-">>
tX == <<"-", "x">>
tZ == <<"-", "z">>
tQ == <<"-", "q">>
tXYZ == <<"-", "x", "y", "z">>
tZX == <<"-", "z", "x">>
tO == <<"-", "-", "o">>
tOV == <<"-", "-", "o", "=", "v">>
tLongQ == <<"-", "-", "q">>

\* p1 greedy and unbounded, then p2 of fixed arity k
GreedyThenFixed(lit, k) ==
    [params |-> <<Positional("p1", "str", TRUE, from_literal(lit), TRUE),
                  Positional("p2", "str", k # 1, IntNArgs(k), TRUE)>>,
     pool |-> {tA, tB}, maxlen |-> MaxPosArgs]

\* p1 lazy and unbounded, then p2 taking k integers
LazyThenInt(lit, k) ==
    [params |-> <<Positional("p1", "str", TRUE, from_literal(lit), TRUE),
                  Positional("p2", "int", k # 1, IntNArgs(k), TRUE)>>,
     pool |-> {tA, tOne}, maxlen |-> MaxPosArgs]

\* p1 lazy, a required integer, then an optional greedy tail
LazyIntTail ==
    [params |-> <<Positional("p1", "str", TRUE, from_literal("*?"), TRUE),
                  Positional("p2", "int", FALSE, IntNArgs(1), TRUE),
                  Positional("p3", "str", TRUE, from_literal("*"), FALSE)>>,
     pool |-> {tA, tOne}, maxlen |-> MaxPosArgs]

\* options -x, -y of arity 0, -z and --o of arity 1, and a greedy positional
OptionsAndRest ==
    [params |-> <<Option("x", "counter", FALSE, IntNArgs(0), FALSE, FALSE, <<tX>>),
                  Option("y", "flag", FALSE, IntNArgs(0), FALSE, FALSE, <<<<"-", "y">>>>),
                  Option("z", "str", FALSE, IntNArgs(1), FALSE, TRUE, <<tZ>>),
                  Option("o", "str", FALSE, IntNArgs(1), FALSE, TRUE, <<tO>>),
                  Positional("rest", "str", TRUE, from_literal("*"), FALSE)>>,
     pool |-> {tA, tB, tMarker, tX, tZ, tXYZ, tO, tOV, tLongQ},
     maxlen |-> MaxArgs]

\* every arity fixed: options of arity 0, 1 and 2, positionals of arity 1 and 2
AllFixed ==
    [params |-> <<Option("x", "counter", FALSE, IntNArgs(0), FALSE, FALSE, <<tX>>),
                  Option("z", "str", FALSE, IntNArgs(1), FALSE, TRUE, <<tZ>>),
                  Option("o", "str", TRUE, IntNArgs(2), FALSE, FALSE, <<tO>>),
                  Positional("p1", "str", FALSE, IntNArgs(1), TRUE),
                  Positional("p2", "int", TRUE, IntNArgs(2), TRUE)>>,
     pool |-> {tA, tOne, tMarker, tX, tZ, tZX, tO, tOV, tQ},
     maxlen |-> MaxArgs]

\* options only, as the parser of a Group has
OptionsOnly ==
    [params |-> <<Option("x", "counter", FALSE, IntNArgs(0), FALSE, FALSE, <<tX>>),
                  Option("z", "str", FALSE, IntNArgs(1), FALSE, TRUE, <<tZ>>)>>,
     pool |-> {tA, tB, tMarker, tX, tZ, tLongQ},
     maxlen |-> MaxArgs]

\* one positional that repeats a single value between min and max times
BoundedVariadic(min, max, greedy) ==
    [params |-> <<Positional("p1", "str", TRUE,
                             VariadicNArgs(IntNArgs(1), min, max, greedy), TRUE)>>,
     pool |-> {tA, tB}, maxlen |-> MaxPosArgs]

\* a positional of arity Fixed(0), then one of arity Fixed(1)
FixedZero ==
    [params |-> <<Positional("p1", "str", TRUE, IntNArgs(0), TRUE),
                  Positional("p2", "str", FALSE, IntNArgs(1), TRUE)>>,
     pool |-> {tA, tB}, maxlen |-> MaxPosArgs]

\* a variadic arity inside a variadic arity
Nested(inner, greedy) ==
    [params |-> <<Positional("p1", "str", TRUE,
                             VariadicNArgs(inner, 0, Unbounded, greedy), TRUE)>>,
     pool |-> {tA, tB}, maxlen |-> MaxPosArgs]

tXV == <<"-", "x", "=", "v">>
tZV == <<"-", "z", "=", "v">>
tXZV == <<"-", "x", "z", "=", "v">>
tQV == <<"-", "-", "q", "=", "v">>

\* options of arity 0, 1 and 2 met by tokens that carry an inline value
InlineValues ==
    [params |-> <<Option("x", "counter", FALSE, IntNArgs(0), FALSE, FALSE, <<tX>>),
                  Option("z", "str", FALSE, IntNArgs(1), FALSE, TRUE, <<tZ>>),
                  Option("q", "str", FALSE, IntNArgs(1), FALSE, TRUE, <<tLongQ>>),
                  Option("o", "str", TRUE, IntNArgs(2), FALSE, FALSE, <<tO>>),
                  Positional("rest", "str", TRUE, from_literal("*"), FALSE)>>,
     pool |-> {tA, tXV, tZV, tXZV, tQV, tOV},
     maxlen |-> MaxArgs]

tXZ == <<"-", "x", "z">>
tZZV == <<"-", "z", "z", "=", "v">>
tOX == <<"-", "o", "x">>

\* short clusters whose inner characters name options of arity 1 and 2
Clusters ==
    [params |-> <<Option("x", "counter", FALSE, IntNArgs(0), FALSE, FALSE, <<tX>>),
                  Option("z", "str", FALSE, IntNArgs(1), FALSE, TRUE, <<tZ>>),
                  Option("o", "str", TRUE, IntNArgs(2), FALSE, FALSE, <<<<"-", "o">>>>),
                  Positional("rest", "str", TRUE, from_literal("*"), FALSE)>>,
     pool |-> {tA, tXZ, tZZV, tOX},
     maxlen |-> MaxArgs]

\* an option whose type reports a variadic arity: OptionParameter.__init__
\* tests isinstance(type.nargs, str), and type.nargs is an NArgs object, so
\* the descriptor and the Parser are built
VariadicOption ==
    [params |-> <<Option("o", "str", TRUE, from_literal("*"), FALSE, FALSE, <<tO>>),
                  Positional("rest", "str", TRUE, from_literal("*"), FALSE)>>,
     pool |-> {tA, tO},
     maxlen |-> MaxArgs]

Grammars ==
    {GreedyThenFixed(lit, k) : lit \in {"*", "+"}, k \in {1, 2}}
    \cup {LazyThenInt(lit, k) : lit \in {"*?", "+?"}, k \in {1, 2}}
    \cup {LazyIntTail, OptionsAndRest, AllFixed, OptionsOnly}
    \cup {BoundedVariadic(mm[1], mm[2], greedy) :
              mm \in {<<0, 0>>, <<0, 2>>, <<1, 2>>, <<2, 2>>}, greedy \in BOOLEAN}
    \cup {FixedZero, InlineValues, Clusters, VariadicOption}
    \cup {Nested(from_literal("*"), FALSE),
          Nested(VariadicNArgs(IntNArgs(1), 0, 0, TRUE), TRUE)}

TokenLists(pool, maxlen) == UNION {[1..n -> pool] : n \in 0..maxlen}

-----------------------------------------------------------------------------
(* The state machine: one call of parse_args on a constructed Parser *)

\* no State object has been built, no Context has been made
NoHeap == [cells |-> <<>>, objs |-> <<>>, shadow |-> <<>>]

NoContexts == [depth |-> <<>>, closes |-> <<>>, stack |-> <<>>, blocks |-> <<>>,
               last |-> ""]

NoOutcome == [kind |-> "", arg |-> None, values |-> <<>>, leftover |-> <<>>]

Cur ==
    [threads |-> threads, state |-> state, best_match |-> best_match,
     best_is_state |-> best_is_state, error |-> error,
     threads_run |-> threads_run, returned_by |-> returned_by, pc |-> pc,
     exc |-> ""]

\* an exception that _parse_args does not catch leaves parse_args at once
Become(m) ==
    /\ threads' = m.threads
    /\ state' = m.state
    /\ best_match' = m.best_match
    /\ best_is_state' = m.best_is_state
    /\ error' = m.error
    /\ threads_run' = m.threads_run
    /\ returned_by' = m.returned_by
    /\ pc' = IF m.pc = "raised" THEN "done" ELSE m.pc
    /\ outcome' = IF m.pc = "raised" THEN Raised(m.exc, None) ELSE outcome
    /\ steps' = steps + 1
    /\ UNCHANGED <<params, short_flags, long_flags, positional, ctx_args,
                   allow_interspersed_args, raise_on_unexpected, pending,
                   arity, heap, contexts>>

\* a call of parse_args on a Parser built from one of the descriptor sets gs
InitFor(gs) ==
    \E g \in gs :
        /\ params = Parser(g.params).params
        /\ short_flags = Parser(g.params).short_flags
        /\ long_flags = Parser(g.params).long_flags
        /\ positional = Parser(g.params).positional
        /\ ctx_args \in TokenLists(g.pool, g.maxlen)
        /\ allow_interspersed_args \in BOOLEAN
        /\ raise_on_unexpected \in BOOLEAN
        /\ threads = search_start(ctx_args, positional).threads
        /\ state = search_start(ctx_args, positional).state
        /\ best_match = search_start(ctx_args, positional).best_match
        /\ best_is_state = TRUE
        /\ error = None
        /\ threads_run = 0
        /\ returned_by = ""
        /\ pc = "loop"
        /\ outcome = NoOutcome
        /\ pending = <<>>
        /\ arity = Done
        /\ heap = NoHeap
        /\ contexts = NoContexts
        /\ steps = 0

Init == InitFor(Grammars)

\* state = threads.pop()
ThreadPop ==
    /\ pc = "loop"
    /\ threads # <<>>
    /\ Become(pop_thread(Cur))

\* the worklist is empty: return best_match
WorklistEmpty ==
    /\ pc = "loop"
    /\ threads = <<>>
    /\ Become(return_best_match(Cur))

\* _parse_thread drains the top frame
ParseFrame ==
    /\ pc = "thread"
    /\ state.stack # <<>>
    /\ Become(thread_step(Cur, allow_interspersed_args))

\* _parse_thread, no frame open, still parsing flags: _parse_option
ParseOption ==
    /\ pc = "thread"
    /\ state.stack = <<>>
    /\ state.parse_options
    /\ Become(thread_step(Cur, allow_interspersed_args))

\* _parse_thread, no frame open, flags over: the next positional descriptor
ParsePositional ==
    /\ pc = "thread"
    /\ state.stack = <<>>
    /\ ~state.parse_options
    /\ state.positional # <<>>
    /\ Become(thread_step(Cur, allow_interspersed_args))

\* _parse_thread breaks and _parse_args returns state
ThreadBreak ==
    /\ pc = "thread"
    /\ Terminal(state)
    /\ Become(thread_break(Cur))

\* parse_args processes the values and returns or raises (lines 267-281)
ParseArgsFinish ==
    /\ pc = "returned"
    /\ outcome' = parse_args_finish(state, raise_on_unexpected)
    /\ state' = IF parse_args_finish(state, raise_on_unexpected).kind
                   \in {"return", "UnexpetedParameter"}
                   /\ (state.args = <<>> \/ ~raise_on_unexpected)
                THEN reset_unused_args(state)
                ELSE state
    /\ pc' = "done"
    /\ steps' = steps + 1
    /\ UNCHANGED <<params, short_flags, long_flags, positional, ctx_args,
                   allow_interspersed_args, raise_on_unexpected, threads,
                   best_match, best_is_state, error, threads_run,
                   returned_by, pending, arity, heap, contexts>>

\* the descriptor lists Parser() is built from: options whose primary and
\* secondary flags (flags holds both, in the order add_param walks them) are
\* drawn from three flag strings, and positionals
BuildFlags == {tX, tZ, tO}

BuildFlagLists == UNION {[1..n -> BuildFlags] : n \in 1..2}

BuildNames == <<"x", "z", "o", "p">>

BuildParams(i) ==
    {Option(BuildNames[i], "str", FALSE, IntNArgs(1), FALSE, TRUE, fl) :
        fl \in BuildFlagLists}
    \cup {Positional(BuildNames[i], "str", TRUE, from_literal("*"), FALSE)}

BuildLists ==
    UNION {{ps \in [1..n -> UNION {BuildParams(i) : i \in 1..n}] :
               \A i \in 1..n : ps[i] \in BuildParams(i)} : n \in 1..MaxParams}

\* Parser.__init__ has made the empty tables and is about to add the params
BuildInit ==
    /\ pending \in BuildLists
    /\ params = <<>>
    /\ short_flags = <<>>
    /\ long_flags = <<>>
    /\ positional = <<>>
    /\ ctx_args = <<>>
    /\ allow_interspersed_args = TRUE
    /\ raise_on_unexpected = TRUE
    /\ threads = <<>>
    /\ state = State(<<>>, <<>>)
    /\ best_match = State(<<>>, <<>>)
    /\ best_is_state = TRUE
    /\ error = None
    /\ threads_run = 0
    /\ returned_by = ""
    /\ pc = "build"
    /\ outcome = NoOutcome
    /\ arity = Done
    /\ heap = NoHeap
    /\ contexts = NoContexts
    /\ steps = 0

\* add_param on the next descriptor: it is added, or ValueError leaves
\* Parser() with the tables as they are
AddParam ==
    /\ pc = "build"
    /\ pending # <<>>
    /\ LET parser == [short_flags |-> short_flags, long_flags |-> long_flags,
                      positional |-> positional, params |-> params, exc |-> ""]
           added == add_param(parser, Head(pending))
       IN  /\ short_flags' = added.short_flags
           /\ long_flags' = added.long_flags
           /\ positional' = added.positional
           /\ params' = added.params
           /\ pending' = IF added.exc = "" THEN Tail(pending) ELSE pending
           /\ pc' = IF added.exc = "" THEN "build" ELSE "done"
           /\ outcome' = IF added.exc = "" THEN outcome ELSE Raised(added.exc, None)
    /\ steps' = steps + 1
    /\ UNCHANGED <<ctx_args, allow_interspersed_args, raise_on_unexpected,
                   threads, state, best_match, best_is_state, error,
                   threads_run, returned_by, arity, heap, contexts>>

BuildNext == AddParam

BuildSpec == BuildInit /\ [][BuildNext]_vars

\* the arities decrement() is called on: Fixed(n), and Variadic arities
\* with 0 <= min <= max or no maximum around a fixed or a variadic arity
ArityCounts == 0..MaxCount

ArityInputs ==
    {IntNArgs(n) : n \in ArityCounts}
    \cup {VariadicNArgs(v[1], v[2], v[3], v[4]) :
              v \in {w \in {IntNArgs(1), IntNArgs(2), from_literal("*")}
                            \X ArityCounts
                            \X (ArityCounts \cup {Unbounded})
                            \X BOOLEAN :
                        w[3] = Unbounded \/ w[2] <= w[3]}}

NArgsInit ==
    /\ arity \in ArityInputs
    /\ heap = NoHeap
    /\ contexts = NoContexts
    /\ pending = <<>>
    /\ params = <<>>
    /\ short_flags = <<>>
    /\ long_flags = <<>>
    /\ positional = <<>>
    /\ ctx_args = <<>>
    /\ allow_interspersed_args = TRUE
    /\ raise_on_unexpected = TRUE
    /\ threads = <<>>
    /\ state = State(<<>>, <<>>)
    /\ best_match = State(<<>>, <<>>)
    /\ best_is_state = TRUE
    /\ error = None
    /\ threads_run = 0
    /\ returned_by = ""
    /\ pc = "nargs"
    /\ outcome = NoOutcome
    /\ steps = 0

\* nargs.decrement(), as _parse_int_frame and _parse_variadic_frame call it
\* until it returns None
Decrement ==
    /\ pc = "nargs"
    /\ arity # Done
    /\ steps < MaxDecrements
    /\ arity' = decrement(arity)
    /\ steps' = steps + 1
    /\ UNCHANGED <<params, short_flags, long_flags, positional, ctx_args,
                   allow_interspersed_args, raise_on_unexpected, threads,
                   state, best_match, best_is_state, error, threads_run,
                   returned_by, pc, outcome, pending, heap, contexts>>

NArgsNext == Decrement

NArgsSpec == NArgsInit /\ [][NArgsNext]_vars

-----------------------------------------------------------------------------
(* Stack and State as objects.  A Stack is a reference: 0 is EmptyStack(),  *)
(* n > 0 is the StackNode heap.cells[n].  A State object holds one          *)
(* reference per field; heap.shadow[o] is the value the operators above     *)
(* give for the same operations, so that the by-value State of the search   *)
(* can be compared with the objects.                                        *)

\* Stack.push: StackNode(item, self)
Stack_push(cells, ref, item) ==
    [cells |-> Append(cells, [head |-> item, tail |-> ref]),
     ref |-> Len(cells) + 1]

\* mutant: pop removes the head from the node itself, as list.pop would
Stack_pop_in_place(cells, ref) ==
    IF cells[ref].tail = 0
    THEN [cells |-> cells, item |-> cells[ref].head, ref |-> 0]
    ELSE [cells |-> [cells EXCEPT ![ref] = cells[cells[ref].tail]],
          item |-> cells[ref].head, ref |-> ref]

\* StackNode.pop: (self.head, self.tail)
Stack_pop(cells, ref) ==
    [cells |-> cells, item |-> cells[ref].head, ref |-> cells[ref].tail]

\* Stack.from_sequence, from position i on
RECURSIVE from_sequence(_, _, _)
from_sequence(cells, items, i) ==
    IF i = 0
    THEN [cells |-> cells, ref |-> 0]
    ELSE LET rest == from_sequence(cells, items, i - 1)
         IN  Stack_push(rest.cells, rest.ref, items[Len(items) + 1 - i])

\* the items of a Stack, top first (ImmutableStackIterator)
RECURSIVE StackList(_, _)
StackList(cells, ref) ==
    IF ref = 0
    THEN <<>>
    ELSE <<cells[ref].head>> \o StackList(cells, cells[ref].tail)

\* the value of a State object
StateValue(cells, obj) ==
    [args |-> StackList(cells, obj.args),
     positional |-> StackList(cells, obj.positional),
     parse_options |-> obj.parse_options,
     unused_args |-> StackList(cells, obj.unused_args),
     captured_args |-> StackList(cells, obj.captured_args),
     stack |-> StackList(cells, obj.stack),
     log |-> <<>>]

\* self.<field> = self.<field>.push(item)
Heap_push(h, o, field, item) ==
    LET n == Stack_push(h.cells, h.objs[o][field], item)
    IN  [h EXCEPT !.cells = n.cells, !.objs[o][field] = n.ref]

\* item, self.<field> = self.<field>.pop()
Heap_pop(h, o, field) ==
    LET n == Stack_pop(h.cells, h.objs[o][field])
    IN  [h EXCEPT !.cells = n.cells, !.objs[o][field] = n.ref]

\* State.reset_unused_args on an object
RECURSIVE Heap_reset_unused_args(_, _)
Heap_reset_unused_args(h, o) ==
    IF h.objs[o].unused_args = 0
    THEN h
    ELSE LET arg == Stack_pop(h.cells, h.objs[o].unused_args).item
         IN  Heap_reset_unused_args(
                 Heap_push(Heap_pop(h, o, "unused_args"), o, "args", arg), o)

\* State.copy: a new State object with the same references
Heap_copy(h, o) ==
    [h EXCEPT !.objs = Append(@, h.objs[o]),
              !.shadow = Append(@, copy(h.shadow[o]))]

\* the State that _parse_args builds at lines 302-305
HeapStart(tokens, pos) ==
    LET a == from_sequence(<<>>, tokens, Len(tokens))
        q == from_sequence(a.cells, pos, Len(pos))
    IN  [cells |-> q.cells,
         objs |-> <<[args |-> a.ref, positional |-> q.ref,
                     parse_options |-> TRUE, unused_args |-> 0,
                     captured_args |-> 0, stack |-> 0]>>,
         shadow |-> <<State(tokens, pos)>>]

HeapTokens == {tA, tB}
HeapFrames == {StackFrame("p1", from_literal("*"), None, None, FALSE)}
HeapCaptures == {[param |-> "p1", arg |-> PositionalArg(tA)]}

HeapInit ==
    /\ heap \in {HeapStart(tokens, <<"p1", "p2">>) :
                    tokens \in TokenLists(HeapTokens, 2)}
    /\ contexts = NoContexts
    /\ arity = Done
    /\ pending = <<>>
    /\ params = <<>>
    /\ short_flags = <<>>
    /\ long_flags = <<>>
    /\ positional = <<>>
    /\ ctx_args = <<>>
    /\ allow_interspersed_args = TRUE
    /\ raise_on_unexpected = TRUE
    /\ threads = <<>>
    /\ state = State(<<>>, <<>>)
    /\ best_match = State(<<>>, <<>>)
    /\ best_is_state = TRUE
    /\ error = None
    /\ threads_run = 0
    /\ returned_by = ""
    /\ pc = "heap"
    /\ outcome = NoOutcome
    /\ steps = 0

\* object o has become h.objs[o] and its value, by the operators on State
\* values, sv
HeapBecome(h, o, sv) ==
    /\ pc = "heap"
    /\ steps < MaxHeapSteps
    /\ heap' = [h EXCEPT !.shadow[o] = sv]
    /\ steps' = steps + 1
    /\ UNCHANGED <<params, short_flags, long_flags, positional, ctx_args,
                   allow_interspersed_args, raise_on_unexpected, threads,
                   state, best_match, best_is_state, error, threads_run,
                   returned_by, pc, outcome, pending, arity, contexts>>

\* state.copy() in _push_frame
HeapCopy ==
    \E o \in DOMAIN heap.objs :
        /\ Len(heap.objs) < MaxObjects
        /\ HeapBecome(Heap_copy(heap, o), o, heap.shadow[o])

HeapPopArg ==
    \E o \in DOMAIN heap.objs :
        /\ heap.objs[o].args # 0
        /\ HeapBecome(Heap_pop(heap, o, "args"), o,
                      [heap.shadow[o] EXCEPT !.args = Tail(@)])

HeapPushArg ==
    \E o \in DOMAIN heap.objs, arg \in HeapTokens :
        HeapBecome(Heap_push(heap, o, "args", arg), o,
                   push_arg(heap.shadow[o], arg))

HeapPopPositional ==
    \E o \in DOMAIN heap.objs :
        /\ heap.objs[o].positional # 0
        /\ HeapBecome(Heap_pop(heap, o, "positional"), o,
                      [heap.shadow[o] EXCEPT !.positional = Tail(@)])

HeapPushUnusedArg ==
    \E o \in DOMAIN heap.objs, arg \in HeapTokens :
        HeapBecome(Heap_push(heap, o, "unused_args", arg), o,
                   push_unused_arg(heap.shadow[o], arg))

HeapResetUnusedArgs ==
    \E o \in DOMAIN heap.objs :
        HeapBecome(Heap_reset_unused_args(heap, o), o,
                   reset_unused_args(heap.shadow[o]))

HeapPushFrame ==
    \E o \in DOMAIN heap.objs, frame \in HeapFrames :
        HeapBecome(Heap_push(heap, o, "stack", frame), o,
                   State_push_frame(heap.shadow[o], frame))

HeapPopFrame ==
    \E o \in DOMAIN heap.objs :
        /\ heap.objs[o].stack # 0
        /\ HeapBecome(Heap_pop(heap, o, "stack"), o,
                      [heap.shadow[o] EXCEPT !.stack = Tail(@)])

HeapCaptureArg ==
    \E o \in DOMAIN heap.objs, c \in HeapCaptures :
        HeapBecome(Heap_push(heap, o, "captured_args", c), o,
                   capture_arg(heap.shadow[o], c.param, c.arg))

\* state.parse_options = False
HeapEndOptions ==
    \E o \in DOMAIN heap.objs :
        /\ heap.objs[o].parse_options
        /\ HeapBecome([heap EXCEPT !.objs[o].parse_options = FALSE], o,
                      [heap.shadow[o] EXCEPT !.parse_options = FALSE])

HeapNext ==
    \/ HeapCopy
    \/ HeapPopArg
    \/ HeapPushArg
    \/ HeapPopPositional
    \/ HeapPushUnusedArg
    \/ HeapResetUnusedArgs
    \/ HeapPushFrame
    \/ HeapPopFrame
    \/ HeapCaptureArg
    \/ HeapEndOptions

HeapSpec == HeapInit /\ [][HeapNext]_vars

-----------------------------------------------------------------------------
(* Context as a context manager (src/tabb/context.py).  contexts.depth[c]  *)
(* is c._depth, contexts.stack is _local.stack, contexts.closes[c] counts  *)
(* the calls of c.close(); contexts.blocks lists the with-blocks that are  *)
(* open, outermost first, and contexts.last tells what the last call did.  *)

ContextIds == {"c1", "c2"}

Min(a, b) == IF a <= b THEN a ELSE b

\* push_context: _local.stack.append(ctx)
push_context(stack, c) == Append(stack, c)

\* pop_context: _local.stack.pop()
pop_context(stack) == SubSeq(stack, 1, Len(stack) - 1)

\* Context.__enter__
Context_enter(cs, c) ==
    [cs EXCEPT !.depth[c] = @ + 1,
               !.stack = push_context(@, c),
               !.blocks = Append(@, c),
               !.last = "enter"]

\* Context.__exit__: _depth = min(_depth - 1, 0), close() at depth 0, then
\* pop_context()
Context_exit(cs, c) ==
    LET depth == Min(cs.depth[c] - 1, 0)
    IN  [cs EXCEPT !.depth[c] = depth,
                   !.closes[c] = IF depth = 0 THEN @ + 1 ELSE @,
                   !.stack = pop_context(@),
                   !.blocks = SubSeq(@, 1, Len(@) - 1),
                   !.last = IF depth = 0 THEN "exit_closed" ELSE "exit"]

ContextInit ==
    /\ contexts = [depth |-> [c \in ContextIds |-> 0],
                   closes |-> [c \in ContextIds |-> 0],
                   stack |-> <<>>, blocks |-> <<>>, last |-> ""]
    /\ heap = NoHeap
    /\ arity = Done
    /\ pending = <<>>
    /\ params = <<>>
    /\ short_flags = <<>>
    /\ long_flags = <<>>
    /\ positional = <<>>
    /\ ctx_args = <<>>
    /\ allow_interspersed_args = TRUE
    /\ raise_on_unexpected = TRUE
    /\ threads = <<>>
    /\ state = State(<<>>, <<>>)
    /\ best_match = State(<<>>, <<>>)
    /\ best_is_state = TRUE
    /\ error = None
    /\ threads_run = 0
    /\ returned_by = ""
    /\ pc = "context"
    /\ outcome = NoOutcome
    /\ steps = 0

ContextBecome(cs) ==
    /\ pc = "context"
    /\ steps < MaxContextSteps
    /\ contexts' = cs
    /\ steps' = steps + 1
    /\ UNCHANGED <<params, short_flags, long_flags, positional, ctx_args,
                   allow_interspersed_args, raise_on_unexpected, threads,
                   state, best_match, best_is_state, error, threads_run,
                   returned_by, pc, outcome, pending, arity, heap>>

\* `with c:` is entered
ContextEnter ==
    \E c \in ContextIds :
        /\ Len(contexts.blocks) < MaxNesting
        /\ ContextBecome(Context_enter(contexts, c))

\* the innermost open with-block is left
ContextExit ==
    /\ contexts.blocks # <<>>
    /\ ContextBecome(Context_exit(contexts,
                                   contexts.blocks[Len(contexts.blocks)]))

ContextNext == ContextEnter \/ ContextExit

ContextSpec == ContextInit /\ [][ContextNext]_vars

Next ==
    \/ ThreadPop
    \/ WorklistEmpty
    \/ ParseFrame
    \/ ParseOption
    \/ ParsePositional
    \/ ThreadBreak
    \/ ParseArgsFinish

Spec == Init /\ [][Next]_vars

-----------------------------------------------------------------------------
(* Properties *)

\* the occurrences a positional descriptor holds after capturing tokens
Occurrences(tokens) == [i \in 1..Len(tokens) |-> PositionalArg(tokens[i])]

\* no token is the end marker or has the shape of a flag
PlainTokens(tokens) ==
    \A i \in 1..Len(tokens) :
        tokens[i] # tMarker /\ is_positional_arg(partition(tokens[i]).flag)

EngineNArgs(i) == ArgumentParameter_nargs(params[i])

\* a greedy unbounded positional followed by a fixed-arity positional, both
\* accepting every token
GreedyFixedGrammar ==
    /\ Len(params) = 2
    /\ \A i \in 1..2 : params[i].role = "positional" /\ params[i].type = "str"
    /\ EngineNArgs(1) \in {from_literal("*"), from_literal("+")}
    /\ IsInt(EngineNArgs(2))

Captured(st, name) == dict_get(get_captured_args(st), name)

\* a lazy unbounded positional, then a required positional of fixed arity,
\* then only positionals that may stay empty
LazyGrammar ==
    /\ Len(params) >= 2
    /\ \A i \in 1..Len(params) : params[i].role = "positional"
    /\ EngineNArgs(1) \in {from_literal("*?"), from_literal("+?")}
    /\ IsInt(EngineNArgs(2))
    /\ \A i \in 3..Len(params) :
           IsVariadic(EngineNArgs(i)) /\ EngineNArgs(i)[1].min_values = 0

\* the lazy positional may take the first c tokens: it accepts them and the
\* required positional after it accepts the tokens that follow
LazyFeasible(c) ==
    /\ c + EngineNArgs(2)[1].value <= Len(ctx_args)
    /\ \A j \in 1..c : matches(params[1], PositionalArg(ctx_args[j]))
    /\ \A j \in (c + 1)..(c + EngineNArgs(2)[1].value) :
           matches(params[2], PositionalArg(ctx_args[j]))

LazyFeasibleCounts ==
    {c \in EngineNArgs(1)[1].min_values..Len(ctx_args) : LazyFeasible(c)}

\* C2: a lazy unbounded positional captures the smallest count, at least its
\* minimum, for which the required positional after it is satisfied by
\* tokens its probe accepts; the parse succeeds exactly when such a count
\* exists, and no smaller count would do.
C2_LazyTakesMinimum ==
    (pc = "done" /\ LazyGrammar /\ PlainTokens(ctx_args))
    => IF LazyFeasibleCounts = {}
       THEN returned_by = "best_match"
       ELSE LET c == Len(Captured(state, params[1].name))
                k == EngineNArgs(2)[1].value
            IN  /\ returned_by = "success"
                /\ c \in LazyFeasibleCounts
                /\ \A d \in LazyFeasibleCounts : c <= d
                /\ Captured(state, params[1].name) = Occurrences(SubSeq(ctx_args, 1, c))
                /\ Captured(state, params[2].name)
                       = Occurrences(SubSeq(ctx_args, c + 1, c + k))

\* C2 witness: the lazy positional had to take two tokens, after two threads
\* that took fewer had failed, and a larger count would have done as well
C2_Witness ==
    /\ pc = "done"
    /\ LazyGrammar
    /\ returned_by = "success"
    /\ Len(Captured(state, params[1].name)) = 2
    /\ Cardinality(LazyFeasibleCounts) > 1
    /\ threads_run >= 3

\* how many entries of a log are of the given kind
RECURSIVE CountKind(_, _)
CountKind(log, kind) ==
    IF log = <<>>
    THEN 0
    ELSE (IF Head(log).kind = kind THEN 1 ELSE 0) + CountKind(Tail(log), kind)

\* a thread is about to pop a bare '--' while it parses flags
PopsMarker ==
    /\ pc = "thread"
    /\ state.stack = <<>>
    /\ state.parse_options
    /\ state.args # <<>>
    /\ Head(state.args) = tMarker

\* in the log of a thread, every token taken after the end marker was taken
\* as a value
OnlyValuesAfterMarker(log) ==
    \A i, j \in 1..Len(log) :
        (i < j /\ log[i].kind = "marker") => log[j].kind = "value"

C3_Step ==
    /\ PopsMarker
       => /\ pc' = "thread"
          /\ ~state'.parse_options
          /\ state'.args = Tail(state.args)
          /\ state'.unused_args = state.unused_args
          /\ state'.captured_args = state.captured_args
          /\ state'.stack = <<>>
          /\ threads' = threads
    /\ (pc = "thread" /\ ~state.parse_options)
       => /\ ~state'.parse_options
          /\ CountKind(state'.log, "flag") = CountKind(state.log, "flag")
          /\ error' = error
          /\ state'.captured_args # state.captured_args
             => Head(state'.captured_args).arg.kind = "PositionalArg"
    /\ OnlyValuesAfterMarker(state'.log)
    /\ (pc' = "done" /\ CountKind(state'.log, "marker") = 1
        /\ Cardinality({i \in 1..Len(ctx_args) : ctx_args[i] = tMarker}) = 1)
       => \A i \in 1..Len(state'.args) : state'.args[i] # tMarker

\* C3: a bare '--' popped while flags are parsed turns parse_options off for
\* the rest of the thread; it yields no occurrence and is not left over, no
\* later token is looked up in a flag table, and later tokens are captured
\* only as positional values.
C3_MarkerEndsFlags == [][C3_Step]_vars

\* C3 witness: after the marker a flag-shaped token and a second '--' were
\* captured by the positional
C3_Witness ==
    /\ pc = "done"
    /\ CountKind(state.log, "marker") = 1
    /\ Captured(state, "rest") = Occurrences(<<tX, tMarker>>)
    /\ outcome.kind = "return"
    /\ outcome.leftover = <<>>

tY == <<"-", "y">>

\* -x and -y take no value, -z takes one
ClusterGrammar ==
    /\ {tX, tY, tZ} \subseteq DOMAIN short_flags
    /\ ParserParameter_nargs(Param(short_flags[tX])) = IntNArgs(0)
    /\ ParserParameter_nargs(Param(short_flags[tY])) = IntNArgs(0)
    /\ ParserParameter_nargs(Param(short_flags[tZ])) = IntNArgs(1)

\* the same call with the cluster written as three tokens
SplitRun ==
    _parse_args(<<tX, tY, tZ>> \o Tail(ctx_args), allow_interspersed_args)

\* C4: with -x and -y of arity Fixed(0) and -z of arity Fixed(1), parsing
\* ['-xyz'] + T for a non-empty T ends with the same occurrence lists and the
\* same leftover, and the same outcome of parse_args, as ['-x','-y','-z'] + T.
C4_ClusterEqualsSplit ==
    (/\ pc \in {"returned", "done"}
     /\ ClusterGrammar
     /\ Len(ctx_args) >= 2
     /\ Head(ctx_args) = tXYZ)
    => /\ SplitRun.pc = "returned"
       /\ get_captured_args(state) = get_captured_args(SplitRun.state)
       /\ reset_unused_args(state).args = reset_unused_args(SplitRun.state).args
       /\ returned_by = SplitRun.returned_by
       /\ pc = "done"
          => outcome = parse_args_finish(SplitRun.state, raise_on_unexpected)

\* C4 witness: '-xyz' then a value for z and a token that stays a positional
C4_Witness ==
    /\ pc = "done"
    /\ ClusterGrammar
    /\ ctx_args = <<tXYZ, tA, tB>>
    /\ outcome.kind = "return"
    /\ outcome.values["x"] = <<OptionArg(tX, None)>>
    /\ outcome.values["y"] = <<OptionArg(tY, None)>>
    /\ outcome.values["z"] = <<OptionArg(tZ, tA)>>
    /\ outcome.values["rest"] = <<PositionalArg(tB)>>

\* the descriptor a flag names and the arity it shows the engine
FlagParam(f) == IF f \in DOMAIN short_flags THEN short_flags[f] ELSE long_flags[f]

FlagNArgs(f) == ParserParameter_nargs(Param(FlagParam(f)))

\* the flags one flag token names, first to last
TokenFlags(tok) ==
    LET flag == partition(tok).flag
    IN  IF is_short_arg(flag)
        THEN [i \in 1..(Len(flag) - 1) |-> <<"-", flag[i + 1]>>]
        ELSE IF is_long_arg(flag) THEN <<flag>> ELSE <<>>

\* how many of the following tokens the last flag of a flag token takes
TokenTakes(tok) ==
    LET fs == TokenFlags(tok)
    IN  IF fs = <<>> \/ fs[Len(fs)] \notin (DOMAIN short_flags \cup DOMAIN long_flags)
           \/ partition(tok).has_value
        THEN 0
        ELSE FlagNArgs(fs[Len(fs)])[1].value

\* the uses of flag f in a token list, in input order, each with the value
\* written for it: the list is read up to the end marker and, when
\* positionals may not be interspersed, up to the first positional
RECURSIVE FlagUses(_, _, _)
FlagUses(tokens, f, interspersed) ==
    IF tokens = <<>> \/ Head(tokens) = tMarker
    THEN <<>>
    ELSE LET tok == Head(tokens)
             fs == TokenFlags(tok)
             takes == TokenTakes(tok)
             value == IF partition(tok).has_value
                      THEN partition(tok).value
                      ELSE IF takes = 1 /\ Len(tokens) >= 2
                      THEN tokens[2]
                      ELSE None
             uses == [i \in 1..Len(fs) |->
                         OptionArg(fs[i], IF i = Len(fs) THEN value ELSE None)]
             rest == SubSeq(tokens, 2 + takes, Len(tokens))
         IN  IF fs = <<>>
             THEN IF interspersed
                  THEN FlagUses(Tail(tokens), f, interspersed)
                  ELSE <<>>
             ELSE SelectSeq(uses, LAMBDA u : u.flag = f)
                  \o FlagUses(rest, f, interspersed)

IsPrefix(s, t) == Len(s) <= Len(t) /\ SubSeq(t, 1, Len(s)) = s

\* in a successful parse an option of arity Fixed(0) or Fixed(1) holds one
\* occurrence for each use of its flag, in input order
OccurrencesFollowInput ==
    (pc = "done" /\ returned_by = "success")
    => \A f \in DOMAIN short_flags \cup DOMAIN long_flags :
           FlagNArgs(f) \in {IntNArgs(0), IntNArgs(1)}
           => Captured(state, FlagParam(f))
                  = FlagUses(ctx_args, f, allow_interspersed_args)

C5_Step ==
    pc = "thread"
    => \A i \in 1..Len(params) :
              IsPrefix(Captured(state, params[i].name),
                       Captured(state', params[i].name))

\* C5: an option flag of arity Fixed(0) or Fixed(1) used m times yields m
\* occurrences in the order of the uses in the input; a step of a thread
\* only appends to the occurrence list of a descriptor, so the lists are in
\* consumption order and nothing is dropped or overwritten.
C5_OccurrencesAccumulate == []OccurrencesFollowInput /\ [][C5_Step]_vars

\* C5 witness: --o used twice with different values, -x used twice
C5_Witness ==
    /\ pc = "done"
    /\ returned_by = "success"
    /\ outcome.kind = "return"
    /\ \/ /\ ctx_args = <<tOV, tO, tA>>
          /\ outcome.values["o"] = <<OptionArg(tO, <<"v">>), OptionArg(tO, tA)>>
       \/ /\ ctx_args = <<tX, tXYZ, tB>>
          /\ Len(outcome.values["x"]) = 2

\* every option and every positional shows the engine an arity Fixed(n)
AllFixedGrammar ==
    \A i \in 1..Len(params) :
        IF params[i].role = "positional"
        THEN IsInt(EngineNArgs(i))
        ELSE IsInt(ParserParameter_nargs(params[i]))

\* s can be had from t by deleting elements
RECURSIVE IsSubsequence(_, _)
IsSubsequence(s, t) ==
    IF s = <<>>
    THEN TRUE
    ELSE IF t = <<>>
    THEN FALSE
    ELSE IF Head(s) = Head(t)
    THEN IsSubsequence(Tail(s), Tail(t))
    ELSE IsSubsequence(s, Tail(t))

\* the values the positional descriptors hold, descriptor after descriptor
RECURSIVE PositionalValues(_, _)
PositionalValues(st, i) ==
    IF i > Len(params)
    THEN <<>>
    ELSE (IF params[i].role = "positional"
          THEN [j \in 1..Len(Captured(st, params[i].name)) |->
                   Captured(st, params[i].name)[j].value]
          ELSE <<>>)
         \o PositionalValues(st, i + 1)

\* C6: when every descriptor shows the engine a fixed arity no State is ever
\* appended to the worklist: the root is the only thread run, whatever the
\* tokens and the interspersed mode, and the positional captures follow the
\* order of the input.
C6_FixedNeverForks ==
    AllFixedGrammar
    => /\ threads_run <= 1
       /\ threads = IF threads_run = 0 THEN <<State(ctx_args, positional)>> ELSE <<>>
       /\ pc \in {"returned", "done"} => threads_run = 1
       /\ IsSubsequence(PositionalValues(state, 1), ctx_args)

\* C6 witness: three tokens filled both positionals in the one thread run
C6_Witness ==
    /\ pc = "done"
    /\ AllFixedGrammar
    /\ returned_by = "success"
    /\ threads_run = 1
    /\ Len(ctx_args) = 3
    /\ Len(PositionalValues(state, 1)) = 3
    /\ allow_interspersed_args

\* C7: in strict mode, whenever flag parsing pops a token that names an
\* unknown long flag or a cluster with an unknown short flag, parse_args
\* raises UnexpetedParameter carrying that whole token, whatever else the
\* grammar declares.
C7_UnknownFlagRaises ==
    (pc = "done" /\ raise_on_unexpected /\ error # None)
    => outcome.kind = "UnexpetedParameter" /\ outcome.arg = error

\* how often tok occurs in a token list
Count(tokens, tok) == Cardinality({i \in 1..Len(tokens) : tokens[i] = tok})

\* how often tok was taken as a flag token, as the end marker or as a
\* captured value
CountTaken(log, tok) == Cardinality({i \in 1..Len(log) : log[i].tok = tok})

\* C8: when parse_args returns normally in non-strict mode every input token
\* is accounted for exactly once, as a recognised flag token, the end marker,
\* a captured value or an element of leftover, and leftover is a subsequence
\* of the input.
C8_EveryTokenAccounted ==
    (pc = "done" /\ ~raise_on_unexpected /\ outcome.kind = "return")
    => /\ \A i \in 1..Len(ctx_args) :
              Count(ctx_args, ctx_args[i])
                  = CountTaken(state.log, ctx_args[i])
                    + Count(outcome.leftover, ctx_args[i])
       /\ IsSubsequence(outcome.leftover, ctx_args)

\* what the same call gives with raise_on_unexpected set the other way
OtherMode ==
    parse_args_finish(_parse_args(ctx_args, allow_interspersed_args).state,
                      ~raise_on_unexpected)

\* C9: for the same parser, tokens and interspersed mode, and when value
\* processing raises nothing, the strict call raises UnexpetedParameter
\* exactly when the lenient call returns a non-empty leftover.
C9_StrictIffLeftover ==
    (pc = "done" /\ outcome.kind \in {"return", "UnexpetedParameter"})
    => IF raise_on_unexpected
       THEN /\ OtherMode.kind = "return"
            /\ outcome.kind = "UnexpetedParameter" <=> OtherMode.leftover # <<>>
       ELSE /\ OtherMode.kind \in {"return", "UnexpetedParameter"}
            /\ OtherMode.kind = "UnexpetedParameter" <=> outcome.leftover # <<>>

\* C9 witness: the strict call raises for a positional that was set aside
\* while flags were parsed and never taken
C9_Witness ==
    /\ pc = "done"
    /\ raise_on_unexpected
    /\ outcome.kind = "UnexpetedParameter"
    /\ returned_by = "best_match"
    /\ error = None
    /\ OtherMode.leftover = <<tA>>

C10_Step ==
    /\ (pc = "loop" /\ threads # <<>>)
       => /\ state' = threads[Len(threads)]
          /\ threads' = SubSeq(threads, 1, Len(threads) - 1)
          /\ threads_run' = threads_run + 1
          /\ pc' = "thread"
    /\ pc = "thread"
       => /\ threads_run' = threads_run
          /\ IsPrefix(threads, threads')
    /\ (pc = "thread" /\ Terminal(state))
       => /\ pc' = "returned"
          /\ returned_by' = "success"
          /\ state' = state
          /\ threads' = threads
    /\ returned_by' = "success" => Terminal(state')
    /\ pc \in {"returned", "done"}
       => /\ pc' = "done"
          /\ threads' = threads
          /\ threads_run' = threads_run
          /\ returned_by' = returned_by

\* C10: the worklist is popped last in first out and one thread runs at a
\* time; the first thread whose State has no open frame, parse_options false
\* and no positional descriptor left is returned at once, whatever tokens it
\* has not consumed, and the States still on the worklist are never run.
C10_FirstTerminalWins == [][C10_Step]_vars

\* C10 witness: a thread succeeded with tokens left over and States waiting
C10_Witness ==
    /\ pc = "done"
    /\ returned_by = "success"
    /\ threads # <<>>
    /\ threads_run >= 2
    /\ outcome.kind = "return"
    /\ outcome.leftover # <<>>

\* the final States of the threads that failed in a run of the search from
\* m on, in the order in which they failed
RECURSIVE failed_states(_, _)
failed_states(m, interspersed) ==
    IF m.pc \in {"returned", "raised"}
    THEN <<>>
    ELSE LET n == search_step(m, interspersed)
         IN  (IF m.pc = "thread" /\ n.pc = "loop" THEN <<n.state>> ELSE <<>>)
             \o failed_states(n, interspersed)

FailedStates ==
    failed_states(search_start(ctx_args, positional), allow_interspersed_args)

\* C11: when every thread failed, _parse_args returns the final State of a
\* failed thread whose loss is minimal among the failed threads, and of the
\* failed threads of that loss the one that failed first.
C11_BestMatchIsFirstMinimal ==
    (pc \in {"returned", "done"} /\ returned_by = "best_match")
    => /\ FailedStates # <<>>
       /\ Len(FailedStates) = threads_run
       /\ \E i \in 1..Len(FailedStates) :
              /\ best_match = FailedStates[i]
              /\ pc = "returned" => state = FailedStates[i]
              /\ \A j \in 1..Len(FailedStates) :
                     ~loss_less(loss(FailedStates[j]), loss(FailedStates[i]))
              /\ \A j \in 1..(i - 1) :
                     loss(FailedStates[j]) # loss(FailedStates[i])

\* C11 witness: several threads failed, two of them with the minimal loss,
\* and the State returned is neither the first nor the last that failed
C11_Witness ==
    /\ pc = "returned"
    /\ returned_by = "best_match"
    /\ Len(FailedStates) >= 3
    /\ state # FailedStates[1]
    /\ state # FailedStates[Len(FailedStates)]
    /\ loss(state) = loss(FailedStates[Len(FailedStates)])

\* the token has the shape of a flag
FlagShaped(tok) ==
    tok # tMarker
    /\ (is_short_arg(partition(tok).flag) \/ is_long_arg(partition(tok).flag))

\* a thread still parsing flags has opened no positional frame
NoPositionalOpened(st) ==
    /\ st.positional = positional
    /\ PositionalValues(st, 1) = <<>>
    /\ \A i \in 1..Len(st.stack) : st.stack[i].flag # None

C12_Step ==
    allow_interspersed_args
    => /\ (pc' = "thread" /\ state'.parse_options) => NoPositionalOpened(state')
       /\ (pc = "thread" /\ state.stack = <<>> /\ state.parse_options
           /\ state.args # <<>>)
          => /\ FlagShaped(Head(state.args))
                => \/ /\ pc' = "thread"
                      /\ state'.log = Append(state.log,
                                             [tok |-> Head(state.args), kind |-> "flag"])
                      /\ state'.unused_args = state.unused_args
                   \/ pc' = "returned" /\ error' = Head(state.args)
                   \/ pc' = "done" /\ outcome'.kind = "ValueError"
             /\ (~FlagShaped(Head(state.args)) /\ Head(state.args) # tMarker)
                => /\ pc' = "thread"
                   /\ state'.parse_options
                   /\ state'.args = Tail(state.args)
                   /\ state'.unused_args = <<Head(state.args)>> \o state.unused_args
                   /\ state'.captured_args = state.captured_args
       /\ (pc = "thread" /\ state.parse_options /\ pc' = "thread"
           /\ ~state'.parse_options)
          => state.args = <<>> \/ Head(state.args) = tMarker
       /\ (pc = "thread" /\ state.stack = <<>> /\ ~state.parse_options
           /\ ~Terminal(state) /\ pc' = "thread")
          => /\ state'.unused_args = <<>>
             /\ state'.args = Reverse(state.unused_args) \o state.args

\* C12: with interspersed arguments allowed, a thread opens no positional
\* frame while it parses flags, and flag parsing ends only at '--' or at the
\* end of the tokens; a flag-shaped token met meanwhile is looked up even
\* after tokens that are no flags, which are set aside and handed to the
\* positional descriptors, in their order, once flag parsing is over.
C12_FlagsBeforePositionals == [][C12_Step]_vars

\* C12 witness: a flag was recognised between two tokens that went to the
\* positional afterwards
C12_Witness ==
    /\ pc = "done"
    /\ allow_interspersed_args
    /\ ctx_args = <<tA, tX, tB>>
    /\ outcome.kind = "return"
    /\ "rest" \in DOMAIN outcome.values
    /\ outcome.values["x"] = <<OptionArg(tX, None)>>
    /\ outcome.values["rest"] = Occurrences(<<tA, tB>>)

\* the index of the first token that flag parsing pops and that is neither
\* the end marker nor flag-shaped, reading from index k on; 0 when there is
\* none before the end marker or the end of the tokens
RECURSIVE FirstPlain(_, _)
FirstPlain(tokens, k) ==
    IF k > Len(tokens) \/ tokens[k] = tMarker
    THEN 0
    ELSE IF FlagShaped(tokens[k])
    THEN FirstPlain(tokens, k + 1 + TokenTakes(tokens[k]))
    ELSE k

\* without positional descriptors the tokens from the first plain one on are
\* the leftover, unchanged
LeftoverFromFirstPlain ==
    (/\ pc = "done"
     /\ ~allow_interspersed_args
     /\ ~raise_on_unexpected
     /\ positional = <<>>
     /\ returned_by = "success"
     /\ FirstPlain(ctx_args, 1) # 0)
    => /\ outcome.kind = "return"
       /\ outcome.leftover = SubSeq(ctx_args, FirstPlain(ctx_args, 1), Len(ctx_args))

C13_Step ==
    ~allow_interspersed_args
    => /\ (pc = "thread" /\ state.stack = <<>> /\ state.parse_options
           /\ state.args # <<>> /\ Head(state.args) # tMarker
           /\ ~FlagShaped(Head(state.args)))
          => /\ pc' = "thread"
             /\ ~state'.parse_options
             /\ state'.args = state.args
             /\ state'.unused_args = <<>>
             /\ state'.captured_args = state.captured_args
             /\ state'.log = state.log
       /\ (pc = "thread" /\ ~state.parse_options)
          => /\ ~state'.parse_options
             /\ CountKind(state'.log, "flag") = CountKind(state.log, "flag")
             /\ CountKind(state'.log, "marker") = CountKind(state.log, "marker")
             /\ error' = error

\* C13: with interspersed arguments not allowed, the first token popped by
\* flag parsing that is neither '--' nor flag-shaped ends flag parsing for
\* good and goes back to the front of the tokens, and no later token is
\* looked up as a flag; a parser without positionals in non-strict mode
\* returns that token and all later ones, in order, as leftover.
C13_FirstPlainEndsFlags == []LeftoverFromFirstPlain /\ [][C13_Step]_vars

\* C13 witness: a flag, then a plain token and a flag-shaped one that are
\* both handed on as leftover
C13_Witness ==
    /\ pc = "done"
    /\ ~allow_interspersed_args
    /\ ~raise_on_unexpected
    /\ positional = <<>>
    /\ ctx_args = <<tX, tA, tX>>
    /\ outcome.kind = "return"
    /\ outcome.values["x"] = <<OptionArg(tX, None)>>
    /\ outcome.leftover = <<tA, tX>>

\* every flag string of a descriptor list, in the order add_param meets them
RECURSIVE AllFlags(_)
AllFlags(ps) ==
    IF ps = <<>> THEN <<>> ELSE Head(ps).flags \o AllFlags(Tail(ps))

HasDuplicateFlag(ps) ==
    \E i, j \in 1..Len(AllFlags(ps)) : i < j /\ AllFlags(ps)[i] = AllFlags(ps)[j]

\* Parser() has returned
Constructed == pc = "build" /\ pending = <<>>

\* each flag of each option added is in its table and names that option
OneOwnerPerFlag ==
    \A i \in 1..Len(params) :
        \A k \in 1..Len(params[i].flags) :
            LET f == params[i].flags[k]
                table == IF is_short_flag(f) THEN short_flags ELSE long_flags
            IN  f \in DOMAIN table /\ table[f] = params[i].name

\* C14: a descriptor list in which a short or a long flag string occurs
\* twice, in one option or in two, never yields a Parser: add_param raises
\* ValueError while the list is added, before any token is parsed, and the
\* tables of a Parser that was built give every flag exactly one owner.
C14_DuplicateFlagRaises ==
    /\ pc \in {"build", "done"}
    /\ pc = "build" => ~HasDuplicateFlag(params) /\ OneOwnerPerFlag
    /\ Constructed => DOMAIN short_flags \cup DOMAIN long_flags
                          = {AllFlags(params)[i] : i \in 1..Len(AllFlags(params))}
    /\ HasDuplicateFlag(params \o pending) => ~Constructed
    /\ pc = "done"
       => /\ outcome.kind = "ValueError"
          /\ pending # <<>>
          /\ HasDuplicateFlag(params \o <<Head(pending)>>)
          /\ threads_run = 0
          /\ state.log = <<>>

\* C14 witness: the flag of the first option comes again as the second flag
\* of the third, and ValueError is raised when the third is added
C14_Witness ==
    /\ pc = "done"
    /\ outcome.kind = "ValueError"
    /\ Len(params) = 2
    /\ Len(pending) = 1
    /\ ~HasDuplicateFlag(<<Head(pending)>>)
    /\ Len(Head(pending).flags) = 2
    /\ Len(params[1].flags) = 1
    /\ Head(pending).flags[2] = params[1].flags[1]

\* more steps than a call on these tokens and descriptors ever takes
StepBound == 6 * 2^Len(ctx_args) + 3 * Len(ctx_args) + 2 * Len(params)

\* the call is within its step bound, and where it has not ended a step of
\* the loop of _parse_args, of _parse_thread or of parse_args is due
WithinStepBound ==
    /\ steps <= StepBound
    /\ pc \in {"loop", "thread", "returned", "done"}

\* C15: every call of parse_args comes to its end, whatever the descriptors
\* and the tokens: each step is counted, the count never passes a bound that
\* the tokens and descriptors fix, and the call can only stop at its end;
\* this covers unbounded maxima, max_values = 0 and nested variadic arities.
C15_ParseTerminates == []WithinStepBound /\ [][steps' = steps + 1]_vars

\* C15 witness: a call on a variadic arity nested in another one ended after
\* several threads were run
C15_Witness ==
    /\ pc = "done"
    /\ Len(params) = 1
    /\ Len(EngineNArgs(1)) = 3
    /\ Len(ctx_args) = 4
    /\ threads_run >= 3
    /\ steps >= 20

\* a frame whose arity is variadic with min_values 0
ZeroMinFrame(frame) == IsVariadic(frame.nargs) /\ frame.nargs[1].min_values = 0

\* State a is State b with one frame more on top of its stack
OneFrameMore(a, b) ==
    /\ a.stack # <<>>
    /\ [a EXCEPT !.stack = Tail(@)] = b

\* how many States the step has appended to the worklist
Appended == Len(threads') - Len(threads)

C16_Step ==
    /\ pc = "thread"
       => /\ IsPrefix(threads, threads')
          /\ Appended # 0
             => /\ pc' = "thread"
                /\ \A i \in (Len(threads) + 1)..Len(threads') :
                       LET alt == threads'[i]
                           running == IF i = Len(threads') THEN state' ELSE threads'[i + 1]
                       IN  \/ /\ OneFrameMore(running, alt)
                              /\ ZeroMinFrame(Head(running.stack))
                              /\ Head(running.stack).nargs[1].greedy
                           \/ /\ OneFrameMore(alt, running)
                              /\ ZeroMinFrame(Head(alt.stack))
                              /\ ~Head(alt.stack).nargs[1].greedy
          /\ (pc' = "thread" /\ state'.stack # <<>>
              /\ ZeroMinFrame(Head(state'.stack)))
             => /\ Appended >= 1
                /\ Head(state'.stack).nargs[1].greedy
          /\ (state.stack = <<>> /\ ~state.parse_options /\ ~Terminal(state)
              /\ ZeroMinFrame([nargs |-> ArgumentParameter_nargs(Param(Head(state.positional)))]))
             => Appended = 1
    /\ (pc = "loop" /\ threads # <<>>)
       => /\ state' = threads[Len(threads)]
          /\ threads' = SubSeq(threads, 1, Len(threads) - 1)
    /\ pc \notin {"loop", "thread"} => threads' = threads
    /\ threads' # threads => returned_by' = ""

\* C16: opening a frame of a variadic arity with min_values 0 puts exactly
\* one more State on the worklist.  For a greedy arity the running thread
\* has the frame and the State put aside is the same without it; for a lazy
\* arity the running thread goes on without the frame and the State put
\* aside has it.  The State put aside stays where it is under every State
\* forked later and is popped only when the loop of _parse_args is back at
\* its head with those gone, that is after the running thread and the
\* threads forked later have all failed.
C16_ForkOrder == [][C16_Step]_vars

\* C16 witness: while a later thread runs, the worklist holds a State put
\* aside by a lazy fork and one put aside by a greedy fork
C16_Witness ==
    /\ pc = "thread"
    /\ threads_run >= 2
    /\ Len(threads) >= 2
    /\ \E i \in 1..Len(threads) :
           /\ threads[i].stack # <<>>
           /\ ZeroMinFrame(Head(threads[i].stack))
           /\ ~Head(threads[i].stack).nargs[1].greedy
    /\ \E i \in 1..Len(threads) :
           /\ threads[i].stack = <<>>
           /\ threads[i].positional = <<>>

\* the arity repeats a single value: Variadic(Fixed(1), min, max)
RepeatsOneValue(nargs) ==
    Len(nargs) = 2 /\ IsVariadic(nargs) /\ Tail(nargs) = IntNArgs(1)

\* C17: in a successful result a positional of arity Variadic(Fixed(1), min,
\* max) holds at least min values and, when max is bounded, at most max,
\* for all 0 <= min <= max, max = 0 and min = max included.
C17_CountWithinMinMax ==
    (pc = "done" /\ returned_by = "success")
    => \A i \in 1..Len(params) :
           (params[i].role = "positional" /\ RepeatsOneValue(EngineNArgs(i)))
           => LET c == Len(Captured(state, params[i].name))
                  nargs == EngineNArgs(i)[1]
              IN  /\ c >= nargs.min_values
                  /\ nargs.max_values # Unbounded => c <= nargs.max_values

\* the same for the arities whose maximum is not 0
CountWithinPositiveMax ==
    (pc = "done" /\ returned_by = "success")
    => \A i \in 1..Len(params) :
           (params[i].role = "positional" /\ RepeatsOneValue(EngineNArgs(i))
            /\ EngineNArgs(i)[1].max_values # 0)
           => LET c == Len(Captured(state, params[i].name))
                  nargs == EngineNArgs(i)[1]
              IN  /\ c >= nargs.min_values
                  /\ nargs.max_values # Unbounded => c <= nargs.max_values

\* how often the flag f was used by the flag tokens a thread has recognised
RECURSIVE FlagUseCount(_, _)
FlagUseCount(log, f) ==
    IF log = <<>>
    THEN 0
    ELSE (IF Head(log).kind = "flag"
          THEN Len(SelectSeq(TokenFlags(Head(log).tok), LAMBDA g : g = f))
          ELSE 0)
         + FlagUseCount(Tail(log), f)

\* how many values the occurrences of a descriptor carry
ValuesHeld(st, name) ==
    Len(SelectSeq(Captured(st, name), LAMBDA c : c.value # None))

\* in a successful parse the descriptor i of arity Fixed(n) holds n values
\* for each opening of its frame: one opening for a positional, one for
\* each use of its flag for an option
HoldsFixedCount(i) ==
    LET n == ParserParameter_nargs(params[i])[1].value
    IN  IF params[i].role = "positional"
        THEN IsInt(EngineNArgs(i))
             => ValuesHeld(state, params[i].name) = n
        ELSE IsInt(ParserParameter_nargs(params[i]))
             => \A k \in 1..Len(params[i].flags) :
                    Len(params[i].flags) = 1
                    => ValuesHeld(state, params[i].name)
                           = n * FlagUseCount(state.log, params[i].flags[k])

\* C18: one opening of a frame of arity Fixed(n) consumes exactly n values,
\* for every n >= 0, for options (an inline value being the one value of a
\* Fixed(1) option) and positionals alike; Fixed(0) takes no token.
C18_FixedConsumesN ==
    (pc = "done" /\ returned_by = "success")
    => \A i \in 1..Len(params) : HoldsFixedCount(i)

\* the same for every descriptor but a positional of arity Fixed(0)
FixedConsumesPositiveN ==
    (pc = "done" /\ returned_by = "success")
    => \A i \in 1..Len(params) :
           (params[i].role = "positional" => EngineNArgs(i) # IntNArgs(0))
           => HoldsFixedCount(i)

\* what the claim says decrement() gives for a Variadic arity whose maximum
\* is not 1
ReducedVariadic(nargs) ==
    VariadicNArgs(Tail(nargs),
                  IF nargs[1].min_values >= 1 THEN nargs[1].min_values - 1 ELSE 0,
                  IF nargs[1].max_values = Unbounded
                  THEN Unbounded
                  ELSE nargs[1].max_values - 1,
                  nargs[1].greedy)

DecrementObeys ==
    IF IsInt(arity)
    THEN /\ arity[1].value = 1 => arity' = Done
         /\ arity[1].value > 1 => arity' = IntNArgs(arity[1].value - 1)
    ELSE IF arity[1].max_values = 1
    THEN arity' = Done
    ELSE /\ arity' = ReducedVariadic(arity)
         /\ arity'[1].min_values >= 0
         /\ arity'[1].max_values # Unbounded
            => /\ arity'[1].max_values >= 0
               /\ arity'[1].min_values <= arity'[1].max_values

\* C19: decrement() turns Fixed(1) into done and Fixed(n > 1) into
\* Fixed(n - 1), a Variadic with max = 1 into done, and every other Variadic
\* into one of the same inner arity and greediness with min' = max(min - 1,
\* 0) and max' = max - 1 (no maximum stays no maximum), with 0 <= min' and
\* min' <= max' when bounded.
C19_DecrementObeys == [][pc = "nargs" => DecrementObeys]_vars

\* the same for every arity whose maximum is not 0
DecrementObeysPositiveMax ==
    [][(pc = "nargs" /\ (IsVariadic(arity) => arity[1].max_values # 0))
       => DecrementObeys]_vars

\* the thread is about to read a flag token that carries an inline value
ReadsInlineToken ==
    /\ pc = "thread"
    /\ state.stack = <<>>
    /\ state.parse_options
    /\ state.args # <<>>
    /\ partition(Head(state.args)).has_value
    /\ TokenFlags(Head(state.args)) # <<>>

\* the thread is about to drain a frame seeded with an inline value
DrainsInlineFrame ==
    /\ pc = "thread"
    /\ state.stack # <<>>
    /\ Head(state.stack).value # None

\* no State of the search holds an occurrence with value v for a descriptor
\* whose arity is not Fixed(1)
InlineValueOnlyAtFixedOne(v) ==
    \A st \in {state, best_match} \cup {threads[i] : i \in DOMAIN threads} :
        \A i \in DOMAIN st.captured_args :
            st.captured_args[i].arg.value = v
            => ParserParameter_nargs(Param(st.captured_args[i].param)) = IntNArgs(1)

C20_Step ==
    /\ (ReadsInlineToken /\ pc' = "thread")
       => LET tok == Head(state.args)
              fs == TokenFlags(tok)
              last == state'.stack[Len(fs)]
          IN  /\ Len(state'.stack) = Len(fs)
              /\ last.flag = fs[Len(fs)]
              /\ last.value = partition(tok).value
              /\ last.nargs = FlagNArgs(fs[Len(fs)])
              /\ state'.args = Tail(state.args)
              /\ state'.captured_args = state.captured_args
    /\ DrainsInlineFrame
       => LET frame == Head(state.stack)
              occ == OptionArg(frame.flag, frame.value)
          IN  /\ (frame.nargs = IntNArgs(1) /\ matches(Param(frame.param), occ))
                 => /\ pc' = "thread"
                    /\ state'.captured_args
                           = <<[param |-> frame.param, arg |-> occ]>>
                             \o state.captured_args
                    /\ state'.args = state.args
                    /\ state'.stack = Tail(state.stack)
              /\ frame.nargs[1].value # 1
                 => /\ pc' = "loop"
                    /\ state'.captured_args = state.captured_args
                    /\ best_match'.captured_args
                           \in {best_match.captured_args, state.captured_args}

\* C20: a flag token with an inline value seeds the frame of its last flag
\* with that value.  If that flag has arity Fixed(1) and its probe accepts,
\* draining the frame captures exactly one occurrence (flag, value) and
\* takes no token from the input; if its arity is Fixed(0) or Fixed(n >= 2)
\* the thread fails and no occurrence carrying the inline value is captured.
C20_InlineValue ==
    []InlineValueOnlyAtFixedOne(<<"v">>) /\ [][C20_Step]_vars

\* C20 witness: -z=v a parsed: z holds (-z, v) and a was left to rest
C20_Witness ==
    /\ pc = "done"
    /\ returned_by = "success"
    /\ outcome.kind = "return"
    /\ ctx_args = <<tZV, tA>>
    /\ Captured(state, "z") = <<OptionArg(tZ, <<"v">>)>>
    /\ Captured(state, "rest") = <<PositionalArg(tA)>>

\* a short cluster one of whose characters before the last names a
\* registered flag of an arity other than Fixed(0)
BadCluster(tok) ==
    LET fs == TokenFlags(tok)
    IN  /\ is_short_arg(partition(tok).flag)
        /\ \E i \in 1..(Len(fs) - 1) :
               /\ fs[i] \in DOMAIN short_flags
               /\ FlagNArgs(fs[i]) # IntNArgs(0)

\* the frame of a character of a cluster that is not its last
NonLastFrame(frame) ==
    frame.flag # None /\ frame.has_value /\ frame.value = None

ReadsBadCluster ==
    /\ pc = "thread"
    /\ state.stack = <<>>
    /\ state.parse_options
    /\ state.args # <<>>
    /\ BadCluster(Head(state.args))

HoldsBadFrame ==
    /\ pc = "thread"
    /\ \E i \in DOMAIN state.stack :
           NonLastFrame(state.stack[i]) /\ state.stack[i].nargs # IntNArgs(0)

\* no thread that took a bad cluster out of the input ends in success
NoSuccessAfterBadCluster ==
    returned_by = "success"
    => \A i \in DOMAIN state.log :
           state.log[i].kind = "flag" => ~BadCluster(state.log[i].tok)

C21_Step ==
    /\ (ReadsBadCluster /\ pc' = "thread")
       => LET fs == TokenFlags(Head(state.args))
          IN  /\ Len(state'.stack) = Len(fs)
              /\ \A i \in 1..(Len(fs) - 1) :
                     /\ state'.stack[i].flag = fs[i]
                     /\ state'.stack[i].nargs = FlagNArgs(fs[i])
                     /\ NonLastFrame(state'.stack[i])
              /\ state'.captured_args = state.captured_args
    /\ HoldsBadFrame
       => LET frame == Head(state.stack)
          IN  /\ NonLastFrame(frame)
              /\ state'.args = state.args
              /\ IF frame.nargs = IntNArgs(0)
                 THEN /\ pc' = "thread"
                      /\ state'.stack = Tail(state.stack)
                      /\ state'.captured_args
                             = <<[param |-> frame.param,
                                  arg |-> OptionArg(frame.flag, None)]>>
                               \o state.captured_args
                 ELSE /\ pc' = "loop"
                      /\ state'.captured_args = state.captured_args

\* C21: in a short cluster every character before the last gets a frame
\* that carries no value and may read none.  If such a character names a
\* flag whose arity is not Fixed(0), draining its frame fails the thread
\* (MatchError) without taking a token or capturing an occurrence; until
\* then the thread only drains the Fixed(0) frames above it, each capturing
\* an occurrence without value, so no thread that read the cluster succeeds.
C21_BadClusterFails ==
    []NoSuccessAfterBadCluster /\ [][C21_Step]_vars

\* C21 witness: -zz=v a: the thread failed on the first z, which captured
\* neither v nor a
C21_Witness ==
    /\ pc = "loop"
    /\ ctx_args = <<tZZV, tA>>
    /\ threads_run = 1
    /\ state.log = <<[tok |-> tZZV, kind |-> "flag"]>>
    /\ state.args = <<tA>>
    /\ state.captured_args = <<>>
    /\ Len(state.stack) = 1

\* the frame on top belongs to an option that still requires a value and
\* carries none
OptionFrameWantsValue ==
    /\ pc = "thread"
    /\ state.stack # <<>>
    /\ Head(state.stack).flag # None
    /\ ~Head(state.stack).has_value
    /\ Head(state.stack).nargs[1].value >= 1

C22_Step ==
    /\ (pc = "thread" /\ state.stack # <<>> /\ pc' = "thread")
       => /\ state'.parse_options = state.parse_options
          /\ state'.unused_args = state.unused_args
          /\ state'.positional = state.positional
          /\ \/ state'.log = state.log /\ state'.args = state.args
             \/ /\ state.args # <<>>
                /\ state'.args = Tail(state.args)
                /\ state'.log = Append(state.log,
                                       [tok |-> Head(state.args), kind |-> "value"])
    /\ (OptionFrameWantsValue /\ state.args # <<>>)
       => LET frame == Head(state.stack)
              occ == OptionArg(frame.flag, Head(state.args))
          IN  IF matches(Param(frame.param), occ)
              THEN /\ pc' = "thread"
                   /\ state'.args = Tail(state.args)
                   /\ state'.captured_args
                          = <<[param |-> frame.param, arg |-> occ]>>
                            \o state.captured_args
              ELSE pc' = "loop"

\* C22: a thread with an open frame does not classify tokens: a step that
\* drains a frame leaves parse_options, the deferred tokens and the
\* positional descriptors alone and takes at most the next raw token, as a
\* value.  An option frame that still requires a value takes the next raw
\* token as that value whatever its shape, if the matches probe of its
\* descriptor accepts it.
C22_FrameBeforeClassification == [][C22_Step]_vars

\* C22 witness: -z -- -x: the end marker became the value of -z and -x, read
\* with no frame open, was still a flag
C22_Witness ==
    /\ pc = "done"
    /\ returned_by = "success"
    /\ ctx_args = <<tZ, tMarker, tX>>
    /\ "rest" \in DOMAIN outcome.values
    /\ Captured(state, "z") = <<OptionArg(tZ, tMarker)>>
    /\ Captured(state, "x") = <<OptionArg(tX, None)>>
    /\ Captured(state, "rest") = <<>>

\* the tokens of the input that no flag takes, in input order: the list is
\* read as _parse_option reads it, up to the end marker and, when
\* positionals may not be interspersed, up to the first positional
RECURSIVE PlainInput(_, _)
PlainInput(tokens, interspersed) ==
    IF tokens = <<>>
    THEN <<>>
    ELSE IF Head(tokens) = tMarker
    THEN Tail(tokens)
    ELSE IF TokenFlags(Head(tokens)) = <<>>
    THEN IF interspersed
         THEN <<Head(tokens)>> \o PlainInput(Tail(tokens), interspersed)
         ELSE tokens
    ELSE PlainInput(SubSeq(tokens, 2 + TokenTakes(Head(tokens)), Len(tokens)),
                    interspersed)

\* a successful parse that had a positional descriptor to open gave the
\* plain tokens of the input, in input order, to the positionals in
\* declaration order and left the rest in state.args
PositionalsFollowInput ==
    (pc = "done" /\ returned_by = "success" /\ positional # <<>>)
    => PositionalValues(state, 1) \o state.args
           = PlainInput(ctx_args, allow_interspersed_args)

\* in any result the positional values are input tokens in input order
PositionalsInInputOrder ==
    pc = "done" => IsSubsequence(PositionalValues(state, 1), ctx_args)

C23_Step ==
    (pc = "thread" /\ state.stack = <<>> /\ ~state.parse_options
        /\ state.positional # <<>>)
    => /\ pc' = "thread"
       /\ state'.unused_args = <<>>
       /\ state'.args = Reverse(state.unused_args) \o state.args
       /\ state'.captured_args = state.captured_args

\* C23: positional matching preserves input order.  Opening a positional
\* descriptor first replays the deferred tokens, oldest first, in front of
\* the remaining tokens and leaves the deferred stack empty; the values the
\* positional descriptors of a result hold, taken in declaration order and
\* in occurrence order within a descriptor, are input tokens in input order.
C23_PositionalOrder ==
    /\ []PositionalsFollowInput
    /\ []PositionalsInInputOrder
    /\ [][C23_Step]_vars

\* C23 witness: b -- a: the deferred b was replayed in front of the a that
\* follows the end marker
C23_Witness ==
    /\ pc = "done"
    /\ returned_by = "success"
    /\ allow_interspersed_args
    /\ ctx_args = <<tB, tMarker, tA>>
    /\ PositionalValues(state, 1) = <<tB, tA>>
    /\ state.unused_args = <<>>

\* every State object has the value the operators on State values give
ObjectsHoldTheirValues ==
    \A o \in DOMAIN heap.objs :
        StateValue(heap.cells, heap.objs[o]) = heap.shadow[o]

\* a step never writes a Stack node that exists, and touches the fields and
\* the value of one State object at most (a copy adds one object)
C24_Step ==
    /\ Len(heap'.cells) >= Len(heap.cells)
    /\ SubSeq(heap'.cells, 1, Len(heap.cells)) = heap.cells
    /\ \E o \in DOMAIN heap.objs :
           \A q \in DOMAIN heap.objs \ {o} :
               /\ heap'.objs[q] = heap.objs[q]
               /\ heap'.shadow[q] = heap.shadow[q]
    /\ Len(heap'.objs) > Len(heap.objs)
       => /\ heap'.objs = Append(heap.objs, heap'.objs[Len(heap'.objs)])
          /\ heap'.shadow = Append(heap.shadow, heap'.shadow[Len(heap'.shadow)])
          /\ \E o \in DOMAIN heap.objs :
                 heap'.shadow[Len(heap'.shadow)] = heap.shadow[o]

\* C24: a State made by copy() is a snapshot.  The copy starts with the
\* value of its original; no operation on a State (token pop or push-back,
\* deferred push or replay, positional pop, frame push or pop, capture, end
\* of flag parsing) writes an existing Stack node or a field of another
\* State, and every State object always has the value that the same
\* operations give on a State held by value.
C24_CopyIsSnapshot == []ObjectsHoldTheirValues /\ [][C24_Step]_vars

\* C24 witness: after the copy the original popped a token and captured an
\* occurrence; the copy still holds the token and no occurrence
C24_Witness ==
    /\ pc = "heap"
    /\ Len(heap.objs) = 2
    /\ StateValue(heap.cells, heap.objs[2]).args = <<tA, tB>>
    /\ StateValue(heap.cells, heap.objs[2]).captured_args = <<>>
    /\ StateValue(heap.cells, heap.objs[1]).args = <<tB>>
    /\ StateValue(heap.cells, heap.objs[1]).captured_args
           = <<[param |-> "p1", arg |-> PositionalArg(tA)]>>

\* the least number of tokens an arity takes
RECURSIVE MinTokens(_)
MinTokens(nargs) ==
    IF IsInt(nargs)
    THEN nargs[1].value
    ELSE nargs[1].min_values * MinTokens(Tail(nargs))

\* the required positional descriptors that hold fewer values in st than
\* their arity asks for
RequiredUnsatisfied(st) ==
    {i \in 1..Len(params) :
        /\ params[i].role = "positional"
        /\ is_required(params[i])
        /\ Len(Captured(st, params[i].name)) < MinTokens(EngineNArgs(i))}

\* the input tokens st has not consumed: those still to read and those
\* deferred
Unconsumed(st) == Len(st.args) + Len(st.unused_args)

\* the thread that ran last has failed and state is the State it left
ThreadFailed == pc = "loop" /\ threads_run > 0

\* C25: loss() of a State is the pair (number of required positional
\* descriptors not yet satisfied, number of input tokens not yet consumed),
\* for every State a failed thread leaves to be compared with the best
\* abandoned State.
C25_LossCountsUnsatisfied ==
    ThreadFailed
    => loss(state) = <<Cardinality(RequiredUnsatisfied(state)), Unconsumed(state)>>

\* C26: an option whose type reports a variadic arity is rejected when it
\* is constructed, so a Parser never holds one: no parse call opens a frame
\* of a variadic arity for an option or raises ValueError about the arity
\* of an option.
C26_NoVariadicOptionAtParse ==
    /\ \A i \in DOMAIN state.stack :
           state.stack[i].flag # None => IsInt(state.stack[i].nargs)
    /\ pc = "done" => outcome.kind # "ValueError"

\* the positional descriptors, by their place in params
PositionalIndexes == {i \in 1..Len(params) : params[i].role = "positional"}

\* the arity the engine sees is Fixed(n) or a greedy Variadic over Fixed(1)
GreedyOrFixed(nargs) ==
    \/ IsInt(nargs)
    \/ /\ IsVariadic(nargs)
       /\ nargs[1].greedy
       /\ Tail(nargs) = IntNArgs(1)

MinCount(nargs) == IF IsInt(nargs) THEN nargs[1].value ELSE nargs[1].min_values

\* Unbounded for no maximum
MaxCountOf(nargs) == IF IsInt(nargs) THEN nargs[1].value ELSE nargs[1].max_values

\* every positional is Fixed or greedy Variadic over Fixed(1) with a probe
\* that accepts every token, and the input has plain tokens only
GreedyGrammar ==
    /\ PositionalIndexes # {}
    /\ \A i \in PositionalIndexes :
           GreedyOrFixed(EngineNArgs(i)) /\ params[i].type = "str"
    /\ PlainTokens(ctx_args)

RECURSIVE SumOver(_, _)
SumOver(f, S) ==
    IF S = {}
    THEN 0
    ELSE LET i == CHOOSE j \in S : TRUE
         IN  f[i] + SumOver(f, S \ {i})

\* some assignment of the tokens to the positionals, in order, respects
\* every minimum and maximum and uses every token
Assignable ==
    LET lo == [i \in PositionalIndexes |-> MinCount(EngineNArgs(i))]
        hi == [i \in PositionalIndexes |->
                  IF MaxCountOf(EngineNArgs(i)) = Unbounded
                  THEN Len(ctx_args)
                  ELSE MaxCountOf(EngineNArgs(i))]
    IN  /\ SumOver(lo, PositionalIndexes) <= Len(ctx_args)
        /\ Len(ctx_args) <= SumOver(hi, PositionalIndexes)

\* the result satisfies every minimum and leaves no token
ResultComplete ==
    /\ \A i \in PositionalIndexes :
           Len(Captured(state, params[i].name)) >= MinCount(EngineNArgs(i))
    /\ state.args = <<>>
    /\ outcome.kind # "UnexpetedParameter"
    /\ outcome.kind = "return" => outcome.leftover = <<>>

\* C27: for a grammar whose positionals are all Fixed or greedy Variadic
\* over Fixed(1) with probes that accept every token, and an input of plain
\* tokens, if some assignment of the tokens to the positionals respects
\* every minimum and maximum and uses every token, the result satisfies
\* every minimum and has no leftover.
C27_GreedyComplete ==
    (pc = "done" /\ GreedyGrammar /\ Assignable) => ResultComplete

\* the same when no positional has arity Fixed(0)
GreedyCompletePositive ==
    (pc = "done" /\ GreedyGrammar /\ Assignable
        /\ \A i \in PositionalIndexes : EngineNArgs(i) # IntNArgs(0))
    => ResultComplete

\* the worklist ran empty: every thread ended in MatchError
NoThreadSucceeded == pc = "done" /\ returned_by = "best_match"

\* C28: if every thread ends in a local match failure, parse_args in strict
\* mode does not return values: it raises a usage error, whatever the
\* grammar, also when every option has a default.
C28_AllFailedRaises ==
    (NoThreadSucceeded /\ raise_on_unexpected)
    => outcome.kind \in {"MissingParameter", "UnexpetedParameter", "BadParameter"}

\* a thread that still parses flags is the root and has put nothing aside;
\* every State put aside has left flag parsing
FlagsOnlyInRoot ==
    /\ (pc = "thread" /\ state.parse_options)
       => threads = <<>> /\ threads_run = 1
    /\ threads_run >= 1
       => \A i \in DOMAIN threads : ~threads[i].parse_options

C29_Step ==
    /\ (pc = "thread" /\ error' # None)
       => threads_run = 1 /\ threads' = <<>> /\ pc' = "returned"
    /\ (pc = "thread" /\ state.stack # <<>> /\ Head(state.stack).flag # None)
       => /\ threads' = <<>>
          /\ threads_run = 1
          /\ pc' = "loop" => best_match' = state'
    /\ (pc = "thread" /\ Len(threads') > Len(threads))
       => /\ ~state.parse_options
          /\ state'.stack # <<>> => Head(state'.stack).flag = None
          /\ threads'[Len(threads')].stack # <<>>
             => Head(threads'[Len(threads')].stack).flag = None

\* C29: while a thread has parse_options true the worklist is empty and the
\* thread is the root: a State is put aside only by a step taken after flag
\* parsing has ended, for a positional frame.  An unknown flag and a failed
\* option value therefore occur in the root thread with an empty worklist:
\* the search ends there and nothing is retried.
C29_NoForkWhileParsingFlags == []FlagsOnlyInRoot /\ [][C29_Step]_vars

\* C29 witness: a -z: the value of -z is missing; the root failed with the
\* zero-minimum positional not yet opened and no other thread ran
C29_Witness ==
    /\ pc = "done"
    /\ returned_by = "best_match"
    /\ threads_run = 1
    /\ allow_interspersed_args
    /\ ctx_args = <<tA, tZ>>
    /\ positional = <<"rest">>
    /\ state.positional = <<"rest">>
    /\ state.parse_options

\* how many of the open with-blocks belong to c
OpenBlocks(blocks, c) == Len(SelectSeq(blocks, LAMBDA b : b = c))

\* the depth of every Context is the number of its open blocks, never
\* negative, and the thread-local stack holds the open blocks
DepthCountsBlocks ==
    pc = "context"
    => /\ \A c \in ContextIds :
              /\ contexts.depth[c] >= 0
              /\ contexts.depth[c] = OpenBlocks(contexts.blocks, c)
       /\ contexts.stack = contexts.blocks

\* an exit closes the Context exactly when it leaves its outermost block
C30_Step ==
    (pc = "context" /\ contexts.blocks # <<>>
        /\ Len(contexts'.blocks) < Len(contexts.blocks))
    => LET c == contexts.blocks[Len(contexts.blocks)]
       IN  /\ contexts'.stack = SubSeq(contexts.stack, 1, Len(contexts.stack) - 1)
           /\ contexts.stack[Len(contexts.stack)] = c
           /\ contexts'.closes[c]
                  = IF OpenBlocks(contexts'.blocks, c) = 0
                    THEN contexts.closes[c] + 1
                    ELSE contexts.closes[c]
           /\ \A d \in ContextIds \ {c} : contexts'.closes[d] = contexts.closes[d]

\* C30: over properly nested __enter__/__exit__ calls on Context objects,
\* close() runs exactly when the outermost block of a Context exits and
\* never on an inner exit, the depth is never negative, and each __exit__
\* removes from the thread-local stack the entry its __enter__ pushed, also
\* when a Context is entered again after a complete exit.
C30_CloseAtOutermostExit == []DepthCountsBlocks /\ [][C30_Step]_vars

\* an exit at depth 1 closes the Context and leaves it at depth 0
ExitAtDepthOneCloses ==
    [][(pc = "context" /\ contexts.blocks # <<>>
           /\ Len(contexts'.blocks) < Len(contexts.blocks)
           /\ contexts.depth[contexts.blocks[Len(contexts.blocks)]] = 1)
       => LET c == contexts.blocks[Len(contexts.blocks)]
          IN  /\ contexts'.depth[c] = 0
              /\ contexts'.closes[c] = contexts.closes[c] + 1]_vars

====
